---- MODULE Spec2Model ----
(***************************************************************************)
(* Model of the lelongtips property monitor (src/src/monitor.py):          *)
(* identity keys, field validators, requests and the page count, the       *)
(* scrape loop, change detection and run_monitoring over the store file.   *)
(* Texts are TLA+ strings handled character by character, so that          *)
(* normalisation, slugging and lower-casing are computed, not assumed.     *)
(***************************************************************************)
EXTENDS Integers, Sequences, FiniteSets, TLC

VARIABLES
    \* ---- application of the pure helpers (validators, keys, hashes) ----
    fn,            \* helper applied last: "none" before the first call
    arg_text,      \* text argument of validate_price / validate_auction_date
    arg_year,      \* datetime.now().year seen by validate_auction_date
    arg_props,     \* <<R, R'>>: the two records handed to the key helpers, or
                   \* <<first>>: the first page get_total_pages_and_results met
    ret_valid,     \* boolean result of the validator applied last
    ret_value,     \* int result of validate_price, or the pair
                   \* get_total_pages_and_results returned
    ret_keys,      \* <<generate_stable_key(R), generate_stable_key(R')>>
    ret_ids,       \* <<create_property_id(R..), create_property_id(R'..)>>
    ret_hashes,    \* <<create_property_hash(R..), create_property_hash(R'..)>>
    \* ---- change detection across runs ----
    database,            \* the store: ordered mapping record-id -> entry
    loaded,              \* the store as it was before the first run
    prev_database,       \* the store as it was before the latest run
    current_properties,  \* accumulator handed to the latest detect_changes
    prev_current,        \* accumulator of the run before the latest
    new_listings,        \* first result of the latest detect_changes
    changed_properties,  \* second result of the latest detect_changes
    trace,               \* what each loop iteration of the latest detect_changes did
    runs,                \* detect_changes runs so far
    repeated,            \* the latest run was fed the accumulator of the run before
    clock,               \* datetime.now() of the latest scrape
    \* ---- scrape_all_pages ----
    pc,                    \* "idle", "loop" (in the for loop), "after" (loop left), "done"
    total_pages,           \* argument of scrape_all_pages
    total_results,         \* argument of scrape_all_pages
    page_num,              \* the page the loop attempts next
    all_properties,        \* the accumulator: ordered mapping record-id -> record
    scraping_stats,        \* the stats dict
    seen_property_hashes,  \* self.seen_property_hashes
    elapsed,               \* seconds since scraping_stats["start_time"]
    this_year,             \* datetime.now().year during this scrape
    site,                  \* what the site serves during this scrape: the page
                           \* contents, the seconds a page attempt can take and
                           \* the requests it can fail before it answers one
    scrapes,               \* scrape_all_pages calls on this monitor object so far
    yielded,               \* records the page scans of this scrape returned, in order
    last_page,             \* the latest page attempt: what was found and returned
    prev_seen,             \* self.seen_property_hashes as the scrape before left it
    tally,                 \* what the page scans of this scrape dropped so far, and
                           \* the iterations that ran to their end
    \* ---- run_monitoring ----
    rpc,                   \* "idle", "start", "loaded", "counted", "scraping", "done"
    saved,                 \* the store file: [readable, store]
    opened,                \* the store file as this run found it
    outcome,               \* what run_monitoring returned
    notifications,         \* notifications attempted, in order
    racers                 \* two overlapping run_monitoring calls: where each is,
                           \* its in-memory store and what it reported

pureVars == <<fn, arg_text, arg_year, arg_props, ret_valid, ret_value,
              ret_keys, ret_ids, ret_hashes>>

detectVars == <<database, loaded, prev_database, current_properties, prev_current,
                new_listings, changed_properties, trace, runs, repeated, clock>>

scrapeVars == <<pc, total_pages, total_results, page_num, all_properties,
                scraping_stats, seen_property_hashes, elapsed, this_year,
                site, scrapes, yielded, last_page, prev_seen, tally>>

runVars == <<rpc, saved, opened, outcome, notifications, racers>>

vars == <<pureVars, detectVars, scrapeVars, runVars>>

-----------------------------------------------------------------------------
(* Characters and the regular-expression classes the code uses.            *)

UpperCase == "ABCDEFGHIJKLMNOPQRSTUVWXYZ"
LowerCase == "abcdefghijklmnopqrstuvwxyz"
Digits == "0123456789"

At(s, i) == SubSeq(s, i, i)
Rest(s) == SubSeq(s, 2, Len(s))

CharsOf(s) == {At(s, i) : i \in 1..Len(s)}

DigitChars == CharsOf(Digits)
UpperChars == CharsOf(UpperCase)
WordChars == UpperChars \cup CharsOf(LowerCase) \cup DigitChars \cup {"_"}
SpaceChars == {" ", "\t", "\n"}

\* \d
IsDigit(c) == c \in DigitChars
\* \s
IsSpace(c) == c \in SpaceChars
\* \w
IsWord(c) == c \in WordChars

\* int() of one decimal digit
DigitValues == [c \in DigitChars |-> (CHOOSE i \in 1..Len(Digits) : At(Digits, i) = c) - 1]
DigitValue(c) == DigitValues[c]

\* str.lower() on one character
LowerOf ==
    [c \in UpperChars |-> At(LowerCase, CHOOSE i \in 1..Len(UpperCase) : At(UpperCase, i) = c)]
LowerChar(c) == IF c \in UpperChars THEN LowerOf[c] ELSE c

\* str.lower()
RECURSIVE Lower(_)
Lower(s) == IF s = "" THEN "" ELSE LowerChar(At(s, 1)) \o Lower(Rest(s))

\* str.strip(): leading and trailing whitespace removed
RECURSIVE LStrip(_)
LStrip(s) == IF s # "" /\ IsSpace(At(s, 1)) THEN LStrip(Rest(s)) ELSE s

RECURSIVE RStrip(_)
RStrip(s) ==
    IF s # "" /\ IsSpace(At(s, Len(s))) THEN RStrip(SubSeq(s, 1, Len(s) - 1)) ELSE s

Strip(s) == RStrip(LStrip(s))

\* re.sub(r"\s+", rep, s): every maximal run of whitespace becomes rep
RECURSIVE SubSpaces(_, _)
SubSpaces(s, rep) ==
    IF s = "" THEN ""
    ELSE IF IsSpace(At(s, 1)) THEN rep \o SubSpaces(LStrip(s), rep)
    ELSE At(s, 1) \o SubSpaces(Rest(s), rep)

\* re.sub(r"[^\w\s]", "", s): punctuation removed
RECURSIVE DropPunct(_)
DropPunct(s) ==
    IF s = "" THEN ""
    ELSE (IF IsWord(At(s, 1)) \/ IsSpace(At(s, 1)) THEN At(s, 1) ELSE "")
         \o DropPunct(Rest(s))

\* "".join(re.findall(r"\d+", s)): the digits of s, in order
RECURSIVE OnlyDigits(_)
OnlyDigits(s) ==
    IF s = "" THEN ""
    ELSE (IF IsDigit(At(s, 1)) THEN At(s, 1) ELSE "") \o OnlyDigits(Rest(s))

\* sub in s
Contains(s, sub) ==
    \E i \in 1..(Len(s) - Len(sub) + 1) : SubSeq(s, i, i + Len(sub) - 1) = sub

\* s.startswith(prefix)
StartsWith(s, prefix) ==
    Len(s) >= Len(prefix) /\ SubSeq(s, 1, Len(prefix)) = prefix

\* int() of a string of decimal digits
RECURSIVE ParseInt(_)
ParseInt(s) ==
    IF s = "" THEN 0
    ELSE ParseInt(SubSeq(s, 1, Len(s) - 1)) * 10 + DigitValue(At(s, Len(s)))

-----------------------------------------------------------------------------
(* Identity keys.                                                          *)

normalize_text(s) ==
    IF s = "" THEN "" ELSE SubSpaces(Lower(Strip(s)), " ")

normalize_size(s) ==
    IF s = "" THEN ""
    ELSE LET l == Lower(s)
             num == OnlyDigits(l)
             unit == IF Contains(l, "sq.ft") \/ Contains(l, "sqft") THEN "sqft" ELSE ""
         IN num \o unit

\* a key that lets the price through
generate_stable_key_priced(prop) ==
    normalize_text(prop.title) \o "|" \o normalize_text(prop.location)
        \o "|" \o normalize_size(prop.size) \o "|" \o prop.price

generate_stable_key(prop) ==
    normalize_text(prop.title) \o "|" \o normalize_text(prop.location)
        \o "|" \o normalize_size(prop.size)

IdMaxLen == 100

create_property_id(title, location, size) ==
    LET clean_title == DropPunct(title)
        clean_location == DropPunct(location)
        clean_size == DropPunct(size)
        joined == Strip(clean_title \o "_" \o clean_location \o "_" \o clean_size)
        slug == Lower(SubSpaces(joined, "_"))
        base == IF slug = "" THEN "property" ELSE slug
    IN SubSeq(base, 1, IF Len(base) < IdMaxLen THEN Len(base) ELSE IdMaxLen)

\* hashlib.md5(content).hexdigest(): the digest is identified with the text
\* digested, i.e. md5 is taken to be collision-free on the texts of the model.
md5(content) == content

\* a hash that leaves the auction date out
create_property_hash_undated(title, price, auction_date, location, size) ==
    md5(Lower(title \o "_" \o price \o "_" \o location \o "_" \o size))

create_property_hash(title, price, auction_date, location, size) ==
    md5(Lower(title \o "_" \o price \o "_" \o auction_date \o "_" \o location
              \o "_" \o size))

-----------------------------------------------------------------------------
(* Field validators.                                                       *)

min_price == 50000
max_price == 500000000

\* re.sub(r"[^\d.]", "", s)
RECURSIVE DigitsAndDots(_)
DigitsAndDots(s) ==
    IF s = "" THEN ""
    ELSE (IF IsDigit(At(s, 1)) \/ At(s, 1) = "." THEN At(s, 1) ELSE "")
         \o DigitsAndDots(Rest(s))

\* number of "." in s
RECURSIVE CountDots(_)
CountDots(s) ==
    IF s = "" THEN 0 ELSE (IF At(s, 1) = "." THEN 1 ELSE 0) + CountDots(Rest(s))

\* s padded on the right with "0" to at least n characters
RECURSIVE PadZeros(_, _)
PadZeros(s, n) == IF Len(s) >= n THEN s ELSE PadZeros(s \o "0", n)

\* a validator whose lower bound is exclusive
validate_price_exclusive(price_str) ==
    LET price_clean == DigitsAndDots(price_str)
        v == ParseInt(OnlyDigits(price_clean))
        price == IF v < 1000 THEN v * 1000 ELSE v
    IN IF price_clean = "" THEN <<FALSE, 0>>
       ELSE IF min_price < price /\ price <= max_price THEN <<TRUE, price>>
       ELSE <<FALSE, price>>

\* Returns <<ok, value>>.  float() is exact here: a text with more than one
\* "." or with no digit raises ValueError, caught by the handler (False, 0);
\* otherwise the number is whole + 0.frac, kept as the integer part and a flag
\* saying whether a non-zero fraction is left.
validate_price(price_str) ==
    LET price_clean == DigitsAndDots(price_str)
    IN IF price_clean = "" THEN <<FALSE, 0>>
       ELSE IF CountDots(price_clean) > 1 \/ OnlyDigits(price_clean) = "" THEN <<FALSE, 0>>
       ELSE LET dot == IF CountDots(price_clean) = 0 THEN Len(price_clean) + 1
                       ELSE CHOOSE i \in 1..Len(price_clean) : At(price_clean, i) = "."
                whole == ParseInt(SubSeq(price_clean, 1, dot - 1))
                frac == SubSeq(price_clean, dot + 1, Len(price_clean))
                promote == whole < 1000
                \* if price < 1000: price *= 1000
                price == IF promote
                         THEN whole * 1000 + ParseInt(SubSeq(PadZeros(frac, 3), 1, 3))
                         ELSE whole
                left == IF promote THEN SubSeq(frac, 4, Len(frac)) ELSE frac
                more == \E i \in 1..Len(left) : At(left, i) # "0"
            IN IF min_price <= price /\ (price < max_price \/ (price = max_price /\ ~more))
               THEN <<TRUE, price>>
               ELSE <<FALSE, price>>

\* length of the run of digits / of whitespace that starts at position i
RECURSIVE DigitRun(_, _)
DigitRun(s, i) == IF i <= Len(s) /\ IsDigit(At(s, i)) THEN 1 + DigitRun(s, i + 1) ELSE 0

RECURSIVE SpaceRun(_, _)
SpaceRun(s, i) == IF i <= Len(s) /\ IsSpace(At(s, i)) THEN 1 + SpaceRun(s, i + 1) ELSE 0

\* three word characters at i..i+2
Word3(s, i) == i + 2 <= Len(s) /\ \A k \in i..(i + 2) : IsWord(At(s, k))

\* re.match(r"\d{1,2}\s+\w{3}\s+\d{4}\s+\(\w{3}\)", s), anchored at position
\* `from` only: TRUE when the pattern matches there.
DatePatternAt(s, from) ==
    LET d == DigitRun(s, from)
    IN \E day \in {1, 2} :
        /\ day <= d
        /\ LET p1 == from + day
               w1 == SpaceRun(s, p1)
               p2 == p1 + w1
               p3 == p2 + 3
               w2 == SpaceRun(s, p3)
               p4 == p3 + w2
               p5 == p4 + 4
               w3 == SpaceRun(s, p5)
               p6 == p5 + w3
           IN /\ w1 >= 1
              /\ Word3(s, p2)
              /\ w2 >= 1
              /\ p4 + 3 <= Len(s) /\ \A k \in p4..(p4 + 3) : IsDigit(At(s, k))
              /\ w3 >= 1
              /\ p6 + 4 <= Len(s)
              /\ At(s, p6) = "("
              /\ Word3(s, p6 + 1)
              /\ At(s, p6 + 4) = ")"

\* re.search(r"\d{4}", s): start of the leftmost four digits in a row, 0 if none
FirstFourDigits(s) ==
    LET hits == {i \in 1..Len(s) : DigitRun(s, i) >= 4}
    IN IF hits = {} THEN 0 ELSE CHOOSE i \in hits : \A j \in hits : i <= j

\* a validator that admits the current year only
validate_auction_date_this_year(date_str, current_year) ==
    /\ DatePatternAt(date_str, 1)
    /\ FirstFourDigits(date_str) # 0
    /\ ParseInt(SubSeq(date_str, FirstFourDigits(date_str),
                       FirstFourDigits(date_str) + 3)) = current_year

validate_auction_date(date_str, current_year) ==
    IF ~DatePatternAt(date_str, 1) THEN FALSE
    ELSE LET at == FirstFourDigits(date_str)
         IN IF at # 0
            THEN LET year == ParseInt(SubSeq(date_str, at, at + 3))
                 IN current_year <= year /\ year <= current_year + 1
            ELSE FALSE

-----------------------------------------------------------------------------
(* Python dicts.  A record of the program (a dict with string keys) is a   *)
(* TLA+ function on its keys, so a missing key is a key outside DOMAIN.    *)
(* The mappings keyed by record-id keep insertion order, as dict and the   *)
(* JSON file do: they are sequences of [id, data] pairs with distinct ids. *)

None == "<None>"

\* d.get(key, default)
DictGet(d, key, default) == IF key \in DOMAIN d THEN d[key] ELSE default

\* d[key] = value
DictSet(d, key, value) == (key :> value) @@ d

\* d.update(other), {**d, **other}
DictUpdate(d, other) == other @@ d

Keys(m) == {m[i].id : i \in DOMAIN m}

Item(m, id) == m[CHOOSE i \in DOMAIN m : m[i].id = id].data

\* m[id] = data: a new key goes last, an old key keeps its place
SetItem(m, id, data) ==
    IF id \in Keys(m)
    THEN [i \in DOMAIN m |-> IF m[i].id = id THEN [id |-> id, data |-> data] ELSE m[i]]
    ELSE Append(m, [id |-> id, data |-> data])

-----------------------------------------------------------------------------
(* Change detection.                                                       *)

PlaceholderPrefix == "Property Listing P"

\* lines 816-824: stable_key -> existing_id, first entry wins; an entry that
\* lacks "_stable_key" gets it computed and stored.
RECURSIVE BuildStableIndex(_, _, _)
BuildStableIndex(db, i, stable_index) ==
    IF i > Len(db) THEN [database |-> db, stable_index |-> stable_index]
    ELSE LET existing_id == db[i].id
             existing_data == db[i].data
             got == DictGet(existing_data, "_stable_key", "")
             sk == IF got = "" THEN generate_stable_key(existing_data) ELSE got
             db1 == IF got = ""
                    THEN SetItem(db, existing_id, DictSet(existing_data, "_stable_key", sk))
                    ELSE db
             index1 == IF sk # "" /\ sk \notin DOMAIN stable_index
                       THEN DictSet(stable_index, sk, existing_id)
                       ELSE stable_index
         IN BuildStableIndex(db1, i + 1, index1)

\* an insert that seeds no history
InsertNew_unseeded(st, current_id, current_data, sk) ==
    [st EXCEPT
        !.new_listings = SetItem(@, current_id, current_data),
        !.database = SetItem(@, current_id, DictSet(current_data, "_stable_key", sk)),
        !.stable_index = DictSet(@, sk, current_id)]

\* lines 845-864: a record with no match is inserted with fresh histories
InsertNew(st, current_id, current_data, sk) ==
    LET entry == DictSet(
                    DictUpdate(current_data,
                        [price_history |->
                            <<[price |-> current_data.price,
                               date |-> current_data.last_updated]>>,
                         auction_date_history |->
                            <<[auction_date |-> current_data.auction_date,
                               date |-> current_data.last_updated]>>]),
                    "_stable_key", sk)
    IN [st EXCEPT
           !.new_listings = SetItem(@, current_id, current_data),
           !.database = SetItem(@, current_id, entry),
           !.stable_index = DictSet(@, sk, current_id)]

\* a price step that reports the change and forgets the history
PriceStep_unrecorded(existing_data, current_data) ==
    IF current_data.price # existing_data.price
    THEN [data |-> existing_data,
          changes |-> <<[type |-> "price_change",
                         field |-> "Auction Price",
                         old_value |-> existing_data.price,
                         new_value |-> current_data.price,
                         change_date |-> current_data.last_updated]>>]
    ELSE [data |-> existing_data, changes |-> <<>>]

\* lines 872-898: price change entry and price_history append
PriceStep(existing_data, current_data) ==
    IF current_data.price # existing_data.price
    THEN LET seeded ==
                 IF "price_history" \notin DOMAIN existing_data
                 THEN DictSet(existing_data, "price_history",
                        <<[price |-> existing_data.price,
                           date |-> DictGet(existing_data, "first_seen",
                                            current_data.last_updated)]>>)
                 ELSE existing_data
         IN [data |-> DictSet(seeded, "price_history",
                        Append(seeded.price_history,
                               [price |-> current_data.price,
                                date |-> current_data.last_updated])),
             changes |-> <<[type |-> "price_change",
                            field |-> "Auction Price",
                            old_value |-> existing_data.price,
                            new_value |-> current_data.price,
                            change_date |-> current_data.last_updated]>>]
    ELSE [data |-> existing_data, changes |-> <<>>]

\* a date step that keeps only the latest auction date in the history
DateStep_rewriting(existing_data, current_data) ==
    IF current_data.auction_date # existing_data.auction_date
    THEN [data |-> DictSet(existing_data, "auction_date_history",
                        <<[auction_date |-> current_data.auction_date,
                           date |-> current_data.last_updated]>>),
          changes |-> <<[type |-> "auction_date_change",
                         field |-> "Auction Date",
                         old_value |-> existing_data.auction_date,
                         new_value |-> current_data.auction_date,
                         change_date |-> current_data.last_updated]>>]
    ELSE [data |-> existing_data, changes |-> <<>>]

\* lines 900-926: auction date change entry and auction_date_history append
DateStep(existing_data, current_data) ==
    IF current_data.auction_date # existing_data.auction_date
    THEN LET seeded ==
                 IF "auction_date_history" \notin DOMAIN existing_data
                 THEN DictSet(existing_data, "auction_date_history",
                        <<[auction_date |-> existing_data.auction_date,
                           date |-> DictGet(existing_data, "first_seen",
                                            current_data.last_updated)]>>)
                 ELSE existing_data
         IN [data |-> DictSet(seeded, "auction_date_history",
                        Append(seeded.auction_date_history,
                               [auction_date |-> current_data.auction_date,
                                date |-> current_data.last_updated])),
             changes |-> <<[type |-> "auction_date_change",
                            field |-> "Auction Date",
                            old_value |-> existing_data.auction_date,
                            new_value |-> current_data.auction_date,
                            change_date |-> current_data.last_updated]>>]
    ELSE [data |-> existing_data, changes |-> <<>>]

\* lines 928-945: what is reported for a changed listing
ChangeReport(existing_data, current_data, changes) ==
    LET merged == DictUpdate(existing_data, current_data)
        prop_snapshot ==
            IF DictGet(existing_data, "title", "") # ""
               /\ StartsWith(DictGet(current_data, "title", ""), PlaceholderPrefix)
            THEN DictSet(merged, "title", existing_data.title)
            ELSE merged
    IN [property |-> prop_snapshot,
        changes |-> changes,
        history |-> [price_history |-> DictGet(existing_data, "price_history", <<>>),
                     auction_date_history |->
                         DictGet(existing_data, "auction_date_history", <<>>)]]

\* lines 947-952.  existing_data is database[existing_id] itself, not a copy:
\* the update writes current_data's fields into it, and the first_seen read
\* back on the next line is read from the dict just updated.
UpdateSnapshot(existing_data, current_data, sk) ==
    LET updated == DictUpdate(existing_data, current_data)
        stamped == DictSet(updated, "first_seen",
                           DictGet(updated, "first_seen", current_data.last_updated))
    IN DictSet(stamped, "_stable_key", sk)

\* a matched record whose auction date change goes unreported
UpdateExisting_price_only(st, existing_id, current_data, sk) ==
    LET found == Item(st.database, existing_id)
        existing_data == IF "_stable_key" \notin DOMAIN found
                         THEN DictSet(found, "_stable_key", sk)
                         ELSE found
        p == PriceStep(existing_data, current_data)
        d == DateStep(p.data, current_data)
        changes == p.changes
    IN [st EXCEPT
           !.changed_properties =
               IF changes # <<>>
               THEN SetItem(@, existing_id, ChangeReport(d.data, current_data, changes))
               ELSE @,
           !.database = SetItem(@, existing_id, UpdateSnapshot(d.data, current_data, sk))]

\* lines 865-952: a matched record
UpdateExisting(st, existing_id, current_data, sk) ==
    LET found == Item(st.database, existing_id)
        existing_data == IF "_stable_key" \notin DOMAIN found
                         THEN DictSet(found, "_stable_key", sk)
                         ELSE found
        p == PriceStep(existing_data, current_data)
        d == DateStep(p.data, current_data)
        changes == p.changes \o d.changes
    IN [st EXCEPT
           !.changed_properties =
               IF changes # <<>>
               THEN SetItem(@, existing_id, ChangeReport(d.data, current_data, changes))
               ELSE @,
           !.database = SetItem(@, existing_id, UpdateSnapshot(d.data, current_data, sk))]

\* an iteration that takes every record for a new listing
DetectOne_unmatched(st, i) ==
    LET current_id == st.current_properties[i].id
        given == st.current_properties[i].data
        got == DictGet(given, "_stable_key", "")
        sk == IF got = "" THEN generate_stable_key(given) ELSE got
        current_data == IF got = "" THEN DictSet(given, "_stable_key", sk) ELSE given
        st1 == [st EXCEPT !.current_properties = SetItem(@, current_id, current_data)]
    IN InsertNew(st1, current_id, current_data, sk)

\* lines 826-952: one iteration of the loop over current_properties
DetectOne(st, i) ==
    LET current_id == st.current_properties[i].id
        given == st.current_properties[i].data
        got == DictGet(given, "_stable_key", "")
        sk == IF got = "" THEN generate_stable_key(given) ELSE got
        current_data == IF got = "" THEN DictSet(given, "_stable_key", sk) ELSE given
        st1 == [st EXCEPT !.current_properties = SetItem(@, current_id, current_data)]
        existing_id ==
            IF current_id \in Keys(st.database) THEN current_id
            ELSE IF sk \in DOMAIN st.stable_index THEN st.stable_index[sk]
            ELSE None
    IN IF existing_id = None
       THEN InsertNew(st1, current_id, current_data, sk)
       ELSE UpdateExisting(st1, existing_id, current_data, sk)

\* lines 826-952: the iteration for current_properties[i] leads from st to
\* next; what it saw and what it left is added to the trace
Observed(st, next, i) ==
    [next EXCEPT !.trace =
        Append(@, [current_id |-> st.current_properties[i].id,
                   current_data |-> next.current_properties[i].data,
                   database_before |-> st.database,
                   index_before |-> st.stable_index,
                   database_after |-> next.database,
                   new_before |-> st.new_listings,
                   new_after |-> next.new_listings,
                   changed_before |-> st.changed_properties,
                   changed_after |-> next.changed_properties])]

RECURSIVE DetectLoop(_, _)
DetectLoop(st, i) ==
    IF i > Len(st.current_properties) THEN st
    ELSE DetectLoop(Observed(st, DetectOne(st, i), i), i + 1)

\* lines 799-957.  The result holds the two mappings returned and the two
\* arguments as the call leaves them (both are mutated in place).
detect_changes(current, db) ==
    LET indexed == BuildStableIndex(db, 1, <<>>)
    IN DetectLoop([database |-> indexed.database,
                   stable_index |-> indexed.stable_index,
                   current_properties |-> current,
                   new_listings |-> <<>>,
                   changed_properties |-> <<>>,
                   trace |-> <<>>], 1)

-----------------------------------------------------------------------------
(* The values the model draws its inputs from.                             *)

\* fields a container can yield (title, location, size): two titles that
\* differ in punctuation only, two spellings of one size, the placeholder
\* title of line 590 and an anchor text that differs from it in case only
Listings ==
    { [title |-> "Wisma A-B", location |-> "Klang", size |-> "1,200 sq.ft"],
      [title |-> "Wisma AB", location |-> "Klang", size |-> "1,200 sq.ft"],
      [title |-> "Wisma AB", location |-> "Klang", size |-> "1,200sq.ft"],
      [title |-> "Property Listing P1-0", location |-> "KL/Selangor",
       size |-> "Size not specified"],
      [title |-> "property listing p1-0", location |-> "KL/Selangor",
       size |-> "Size not specified"] }

Prices == {"RM204,000", "RM195,000"}

AuctionDates == {"15 Sep 2025 (Mon)", "22 Sep 2025 (Mon)"}

Sightings ==
    { DictUpdate(l, [price |-> p, auction_date |-> d]) :
        l \in Listings, p \in Prices, d \in AuctionDates }

\* records one page scan can yield, in extraction order
MaxAcc == 2

\* detect_changes runs in one behaviour
MaxRuns == 2

\* lines 653-660: the record as extract_and_validate_property completes it
PropertyData(sighting, now_iso) ==
    DictUpdate(sighting,
        [last_updated |-> now_iso,
         first_seen |-> now_iso,
         _stable_key |-> generate_stable_key(sighting)])

\* a merge that keeps the record an id was first seen with
RECURSIVE Accumulate_keep_first(_, _, _)
Accumulate_keep_first(accumulated, page_properties, i) ==
    IF i > Len(page_properties) THEN accumulated
    ELSE LET prop_data == page_properties[i]
             property_id == create_property_id(prop_data.title, prop_data.location,
                                               prop_data.size)
         IN Accumulate_keep_first(
                IF property_id \in Keys(accumulated) THEN accumulated
                ELSE SetItem(accumulated, property_id, prop_data),
                page_properties, i + 1)

\* lines 701-708: all_properties[property_id] = prop_data, in extraction order
RECURSIVE Accumulate(_, _, _)
Accumulate(accumulated, page_properties, i) ==
    IF i > Len(page_properties) THEN accumulated
    ELSE LET prop_data == page_properties[i]
             property_id == create_property_id(prop_data.title, prop_data.location,
                                               prop_data.size)
         IN Accumulate(SetItem(accumulated, property_id, prop_data),
                       page_properties, i + 1)

\* the accumulators a scrape can return, here with every record stamped 0
Snapshots ==
    { Accumulate(<<>>, [i \in DOMAIN q |-> PropertyData(q[i], 0)], 1) :
        q \in UNION {[1..n -> Sightings] : n \in 1..MaxAcc} }

\* the same accumulator, scraped at now_iso (lines 655-657)
Stamped(snapshot, now_iso) ==
    [i \in DOMAIN snapshot |->
        [id |-> snapshot[i].id,
         data |-> DictUpdate(snapshot[i].data,
                             [last_updated |-> now_iso, first_seen |-> now_iso])]]

\* a store written by an earlier revision of the monitor: the entry has no
\* "_stable_key" and no history lists (lines 819-822, 884 and 912 expect it)
LegacyDatabase ==
    << [id |-> create_property_id("Wisma AB", "Klang", "1,200 sq.ft"),
        data |-> [title |-> "Wisma AB", location |-> "Klang", size |-> "1,200 sq.ft",
                  price |-> "RM204,000", auction_date |-> "15 Sep 2025 (Mon)",
                  last_updated |-> 0, first_seen |-> 0]] >>

-----------------------------------------------------------------------------
(* Runs of the change detector over the persisted store.                   *)

InitDetect ==
    /\ database \in {<<>>, LegacyDatabase}
    /\ loaded = database
    /\ prev_database = database
    /\ current_properties = <<>>
    /\ prev_current = <<>>
    /\ new_listings = <<>>
    /\ changed_properties = <<>>
    /\ trace = <<>>
    /\ runs = 0
    /\ repeated = FALSE
    /\ clock = 0

IdleDetect ==
    /\ database = <<>>
    /\ loaded = <<>>
    /\ prev_database = <<>>
    /\ current_properties = <<>>
    /\ prev_current = <<>>
    /\ new_listings = <<>>
    /\ changed_properties = <<>>
    /\ trace = <<>>
    /\ runs = 0
    /\ repeated = FALSE
    /\ clock = 0

\* run_monitoring, lines 1273-1276: detect_changes on the loaded store, then
\* save_properties_database; the next run loads what this one saved
Detect(current) ==
    LET out == detect_changes(current, database)
    IN /\ prev_database' = database
       /\ prev_current' = current_properties
       /\ database' = out.database
       /\ current_properties' = out.current_properties
       /\ new_listings' = out.new_listings
       /\ changed_properties' = out.changed_properties
       /\ trace' = out.trace
       /\ runs' = runs + 1
       /\ UNCHANGED loaded

\* a run on a newly scraped accumulator
RunFresh ==
    /\ runs < MaxRuns
    /\ \E snapshot \in Snapshots :
        /\ clock' = clock + 1
        /\ Detect(Stamped(snapshot, clock + 1))
    /\ repeated' = FALSE
    /\ UNCHANGED <<pureVars, scrapeVars, runVars>>

\* a run on the accumulator the run before was given
RunSame ==
    /\ runs >= 1
    /\ runs < MaxRuns
    /\ Detect(current_properties)
    /\ repeated' = TRUE
    /\ UNCHANGED <<clock, pureVars, scrapeVars, runVars>>

-----------------------------------------------------------------------------
(* Applications of the pure helpers.                                       *)

PriceTexts ==
    { "RM49,999", "RM50,000", "RM350", "RM49", "RM50", "RM999", "RM1,000",
      "RM0", "RM", "RM204,000", "RM195,000", "RM500,000,000", "RM500,000,001",
      "RM1.5", "RM1.2.3" }

DateTexts ==
    { "15 Sep 2025 (Mon)", "15 Sep 2023 (Fri)", "15 September 2025",
      "15 Sep 2024 (Sun)", "1 Jan 2026 (Thu)", "3 Feb 2027 (Wed)",
      "15  Sep\t2025 (Mon)", "15 SEP 2025 (MON)", "115 Sep 2025 (Mon)",
      "15 Sep 2025", "Sep 15 2025 (Mon)", "15 Sep 20255 (Mon)",
      "15 Sep 2025(Mon)", "15 Sep 2025 (Monday)", "5 Sep 2026 (Sat)",
      "15 Sep 2025 (Mon) 10am", "15 123 2025 (4_6)", " 15 Sep 2025 (Mon)", "" }

CurrentYears == {2024, 2025, 2026}

\* records handed to the key helpers: the sightings above and two more
\* auction dates, one of them a re-capitalised spelling
KeyProps ==
    Sightings \cup
    { DictUpdate(l, [price |-> p, auction_date |-> d]) :
        l \in Listings, p \in Prices,
        d \in {"15 SEP 2025 (Mon)", "15 Sep 2026 (Tue)"} }

InitPure ==
    /\ fn = "none"
    /\ arg_text = ""
    /\ arg_year = 0
    /\ arg_props = <<>>
    /\ ret_valid = FALSE
    /\ ret_value = 0
    /\ ret_keys = <<>>
    /\ ret_ids = <<>>
    /\ ret_hashes = <<>>

ApplyValidatePrice ==
    /\ fn = "none"
    /\ \E price_str \in PriceTexts :
        /\ fn' = "validate_price"
        /\ arg_text' = price_str
        /\ ret_valid' = validate_price(price_str)[1]
        /\ ret_value' = validate_price(price_str)[2]
    /\ arg_year' = 0
    /\ arg_props' = <<>>
    /\ ret_keys' = <<>>
    /\ ret_ids' = <<>>
    /\ ret_hashes' = <<>>
    /\ UNCHANGED <<detectVars, scrapeVars, runVars>>

ApplyValidateAuctionDate ==
    /\ fn = "none"
    /\ \E date_str \in DateTexts, current_year \in CurrentYears :
        /\ fn' = "validate_auction_date"
        /\ arg_text' = date_str
        /\ arg_year' = current_year
        /\ ret_valid' = validate_auction_date(date_str, current_year)
    /\ ret_value' = 0
    /\ arg_props' = <<>>
    /\ ret_keys' = <<>>
    /\ ret_ids' = <<>>
    /\ ret_hashes' = <<>>
    /\ UNCHANGED <<detectVars, scrapeVars, runVars>>

HashOf(r) == create_property_hash(r.title, r.price, r.auction_date, r.location, r.size)

ApplyKeys ==
    /\ fn = "none"
    /\ \E r1 \in KeyProps, r2 \in KeyProps :
        /\ fn' = "keys"
        /\ arg_props' = <<r1, r2>>
        /\ ret_keys' = <<generate_stable_key(r1), generate_stable_key(r2)>>
        /\ ret_ids' = <<create_property_id(r1.title, r1.location, r1.size),
                        create_property_id(r2.title, r2.location, r2.size)>>
        /\ ret_hashes' = <<HashOf(r1), HashOf(r2)>>
    /\ arg_text' = ""
    /\ arg_year' = 0
    /\ ret_valid' = FALSE
    /\ ret_value' = 0
    /\ UNCHANGED <<detectVars, scrapeVars, runVars>>

-----------------------------------------------------------------------------
(* Page scan and record extraction.  A container stands for one listing    *)
(* card as lines 308-344 find it: its text holds a price match and a date  *)
(* match, and title, location and size are what lines 549-618 resolve from *)
(* its anchors and text (title "" when neither an anchor nor a pattern     *)
(* gives one).                                                              *)

Containers ==
    { [price |-> "RM204,000", auction_date |-> "15 Sep 2025 (Mon)",
       title |-> "Wisma AB", location |-> "Klang", size |-> "1,200 sq.ft"],
      [price |-> "RM195,000", auction_date |-> "15 Sep 2025 (Mon)",
       title |-> "Wisma AB", location |-> "Klang", size |-> "1,200 sq.ft"],
      [price |-> "RM49,999", auction_date |-> "15 Sep 2025 (Mon)",
       title |-> "Wisma AB", location |-> "Klang", size |-> "1,200sq.ft"],
      [price |-> "RM350", auction_date |-> "15 Sep 2023 (Fri)",
       title |-> "Wisma AB", location |-> "Klang", size |-> "1,200sq.ft"],
      [price |-> "RM350", auction_date |-> "1 Jan 2026 (Thu)",
       title |-> "", location |-> "KL/Selangor", size |-> "Size not specified"] }

\* containers on one page
MaxContainers == 2

\* pages of one scrape
MaxPages == 2

PageContents == UNION {[1..n -> Containers] : n \in 0..MaxContainers}

\* lines 556-664: the record built once price and date have passed
BuildProperty(container, price_value, page, index, now_iso) ==
    PropertyData([price |-> container.price,
                  price_value |-> price_value,
                  auction_date |-> container.auction_date,
                  size |-> container.size,
                  title |-> IF container.title # "" THEN container.title
                            ELSE PlaceholderPrefix \o ToString(page) \o "-"
                                                   \o ToString(index),
                  location |-> container.location,
                  page_number |-> page],
                 now_iso)

\* a validation that lets any auction date pass
ValidateProperty_undated(container, checked, page, index, now_iso, year) ==
    IF ~checked[1] THEN <<>>
    ELSE <<BuildProperty(container, checked[2], page, index, now_iso)>>

\* lines 527-547: the two validations, on the validate_price result
ValidateProperty(container, checked, page, index, now_iso, year) ==
    IF ~checked[1] THEN <<>>
    ELSE IF ~validate_auction_date(container.auction_date, year) THEN <<>>
    ELSE <<BuildProperty(container, checked[2], page, index, now_iso)>>

\* lines 393-664: <<record>>, or <<>> for the None that a failed price or date
\* validation returns
extract_and_validate_property(container, page, index, now_iso, year) ==
    ValidateProperty(container, validate_price(container.price), page, index,
                     now_iso, year)

\* a scan that returns a record whether or not its hash was seen
KeepUnseen_or_seen(acc, property_data, prop_hash) ==
    [acc EXCEPT
        !.seen = @ \cup {prop_hash},
        !.properties = Append(@, DictSet(property_data, "property_hash", prop_hash))]

\* lines 363-371: a validated record against the hashes seen in this scrape
KeepUnseen(acc, property_data, prop_hash) ==
    IF prop_hash \notin acc.seen
    THEN [acc EXCEPT
             !.seen = @ \cup {prop_hash},
             !.properties = Append(@, DictSet(property_data, "property_hash", prop_hash))]
    ELSE [acc EXCEPT !.page_duplicates = @ + 1]

\* lines 355-374: one container's extraction result
ScanOne(acc, extracted) ==
    IF extracted = <<>>
    THEN [acc EXCEPT !.page_invalid = @ + 1]
    ELSE KeepUnseen(acc, extracted[1], HashOf(extracted[1]))

\* lines 351-380: the loop over the containers of one page
RECURSIVE ScanContainers(_, _, _, _, _, _)
ScanContainers(potential_properties, i, page, now_iso, year, acc) ==
    IF i > Len(potential_properties) THEN acc
    ELSE ScanContainers(potential_properties, i + 1, page, now_iso, year,
             ScanOne(acc, extract_and_validate_property(potential_properties[i], page,
                                                        i - 1, now_iso, year)))

\* lines 297-390.  Containers are de-duplicated by their text (lines 326-338)
\* before the loop; seen is self.seen_property_hashes before and after.
RECURSIVE UniqueContainers(_)
UniqueContainers(found) ==
    IF found = <<>> THEN <<>>
    ELSE LET front == UniqueContainers(SubSeq(found, 1, Len(found) - 1))
             last == found[Len(found)]
         IN IF \E i \in DOMAIN front : front[i] = last THEN front ELSE Append(front, last)

extract_properties_from_page(found, page, seen, now_iso, year) ==
    ScanContainers(UniqueContainers(found), 1, page, now_iso, year,
                   [properties |-> <<>>, page_duplicates |-> 0, page_invalid |-> 0,
                    seen |-> seen, containers |-> UniqueContainers(found),
                    outcome |-> "scanned"])

-----------------------------------------------------------------------------
(* Requests.                                                               *)

request_delay == 2
max_retries == 3

\* a request that is tried once more than make_request tries
RECURSIVE make_request_eager(_, _)
make_request_eager(failures, retry_count) ==
    IF failures = 0
    THEN [raised |-> FALSE, requests |-> 1, slept |-> request_delay]
    ELSE IF retry_count <= max_retries
    THEN LET retried == make_request_eager(failures - 1, retry_count + 1)
         IN [raised |-> retried.raised,
             requests |-> retried.requests + 1,
             slept |-> retried.slept + request_delay + 5 * (retry_count + 1)]
    ELSE [raised |-> TRUE, requests |-> 1, slept |-> request_delay]

\* lines 236-255, against a site that fails the next failures requests
\* (requests.get or raise_for_status raises) and answers the one after:
\* whether the call raised, the requests it made and the seconds it slept
RECURSIVE make_request(_, _)
make_request(failures, retry_count) ==
    IF failures = 0
    THEN [raised |-> FALSE, requests |-> 1, slept |-> request_delay]
    ELSE IF retry_count < max_retries
    THEN LET retried == make_request(failures - 1, retry_count + 1)
         IN [raised |-> retried.raised,
             requests |-> retried.requests + 1,
             slept |-> retried.slept + request_delay + 5 * (retry_count + 1)]
    ELSE [raised |-> TRUE, requests |-> 1, slept |-> request_delay]

\* a site that answers the first request of a call, or none of them
AnswersOrNot == {0, max_retries + 1}

-----------------------------------------------------------------------------
(* The first page: get_total_pages_and_results.  A first page is what the  *)
(* request for it meets: the requests the site fails before it answers,   *)
(* whether BeautifulSoup parses the body, the text the "Result(s):"       *)
(* pattern captures (<<>> when nothing matches) and the digits of the     *)
(* page=N links, in document order.                                       *)

FallbackResults == 1650
FallbackPages == 83
ResultsPerPage == 20
PageCeiling == 100

\* .replace(",", "")
RECURSIVE DropCommas(_)
DropCommas(s) ==
    IF s = "" THEN ""
    ELSE (IF At(s, 1) = "," THEN "" ELSE At(s, 1)) \o DropCommas(Rest(s))

\* max(page_numbers), of a non-empty list
RECURSIVE MaxOf(_)
MaxOf(page_numbers) ==
    IF Len(page_numbers) = 1 THEN page_numbers[1]
    ELSE IF page_numbers[1] >= MaxOf(Tail(page_numbers)) THEN page_numbers[1]
    ELSE MaxOf(Tail(page_numbers))

\* lines 265-270
TotalResults(result_text) ==
    IF result_text = <<>> THEN 0 ELSE ParseInt(DropCommas(result_text[1]))

\* an estimate without the ceiling
EstimatedPages_uncapped(results) ==
    IF results > ResultsPerPage
    THEN (results + ResultsPerPage - 1) \div ResultsPerPage
    ELSE 1

\* lines 272, 286-288: the page count when the page shows no page=N link
EstimatedPages(results) ==
    IF results > ResultsPerPage
    THEN IF (results + ResultsPerPage - 1) \div ResultsPerPage < PageCeiling
         THEN (results + ResultsPerPage - 1) \div ResultsPerPage
         ELSE PageCeiling
    ELSE 1

\* lines 272-288
TotalPages(page_links, results) ==
    IF page_links # <<>>
    THEN MaxOf([i \in DOMAIN page_links |-> ParseInt(page_links[i])])
    ELSE EstimatedPages(results)

\* lines 261-291: <<(total_results, total_pages)>> when the try block
\* returns, <<>> when it raises: make_request gives up (line 255),
\* BeautifulSoup raises, or int() is given no digit (line 270)
FirstPageCounts(first) ==
    IF make_request(first.failures, 0).raised THEN <<>>
    ELSE IF ~first.parsed THEN <<>>
    ELSE IF first.result_text # <<>> /\ DropCommas(first.result_text[1]) = "" THEN <<>>
    ELSE << <<TotalResults(first.result_text),
              TotalPages(first.page_links, TotalResults(first.result_text))>> >>

\* a try block whose exception is not caught
get_total_pages_and_results_raising(first) ==
    IF FirstPageCounts(first) = <<>> THEN <<>> ELSE FirstPageCounts(first)[1]

\* lines 257-294
get_total_pages_and_results(first) ==
    IF FirstPageCounts(first) = <<>>
    THEN <<FallbackResults, FallbackPages>>
    ELSE FirstPageCounts(first)[1]

ResultTexts ==
    { <<>>, <<"0">>, <<"1">>, <<"20">>, <<"21">>, <<"40">>, <<"41">>, <<"1,650">>,
      <<"2,000">>, <<"2,001">>, <<"12,345">>, <<",">> }

PageLinks == { <<>>, <<"2">>, <<"2", "3", "83">>, <<"150", "2">>, <<"0">> }

FirstPages ==
    [failures : AnswersOrNot, parsed : BOOLEAN, result_text : ResultTexts,
     page_links : PageLinks]

ApplyTotalPages ==
    /\ fn = "none"
    /\ \E first \in FirstPages :
        /\ fn' = "get_total_pages_and_results"
        /\ arg_props' = <<first>>
        /\ ret_value' = get_total_pages_and_results(first)
    /\ arg_text' = ""
    /\ arg_year' = 0
    /\ ret_valid' = FALSE
    /\ ret_keys' = <<>>
    /\ ret_ids' = <<>>
    /\ ret_hashes' = <<>>
    /\ UNCHANGED <<detectVars, scrapeVars, runVars>>

-----------------------------------------------------------------------------
(* The scrape loop.                                                        *)

TimeLimit == 1200
MaxErrors == 10

\* seconds one page attempt can take: a quick fetch, and one so slow that
\* the time limit is reached
PageSeconds == {2, 1200}

\* total_results as get_total_pages_and_results can return it (line 294: 1650)
ResultCounts == {0, 1, 2, 1650}

\* a / b as a fraction in lowest terms
RECURSIVE Gcd(_, _)
Gcd(a, b) == IF b = 0 THEN a ELSE Gcd(b, a % b)
Fraction(a, b) == [num |-> a \div Gcd(a, b), den |-> b \div Gcd(a, b)]
Zero == [num |-> 0, den |-> 1]

\* lines 770-772
coverage_percentage_unscaled(properties, results) ==
    IF results # 0 THEN Fraction(Len(properties), results) ELSE Zero

coverage_percentage(properties, results) ==
    IF results # 0 THEN Fraction(Len(properties) * 100, results) ELSE Zero

\* lines 765-769
success_rate(pages_completed, pages) ==
    IF pages # 0 THEN Fraction(pages_completed * 100, pages) ELSE Zero

\* line 696: the request for a page, with what the site did to it
Fetch(failures) == DictSet(make_request(failures, 0), "failures", failures)

\* no page attempted yet
NoPage == [page |-> 0, outcome |-> "none", containers |-> <<>>, properties |-> <<>>,
           page_duplicates |-> 0, page_invalid |-> 0, failures |-> 0, requests |-> 0]

\* nothing scanned yet
NoTally == [duplicates |-> 0, invalid |-> 0, completed |-> 0]

IdleScrape ==
    /\ pc = "idle"
    /\ total_pages = 0
    /\ total_results = 0
    /\ page_num = 0
    /\ all_properties = <<>>
    /\ scraping_stats = <<>>
    /\ seen_property_hashes = {}
    /\ elapsed = 0
    /\ this_year = 0
    /\ site = [contents |-> {}, seconds |-> {}, failures |-> {}]
    /\ scrapes = 0
    /\ yielded = <<>>
    /\ last_page = NoPage
    /\ prev_seen = {}
    /\ tally = NoTally

\* lines 667-688: the call, up to the first iteration, against a site that
\* serves the page contents and response times of served
BeginScrape(pages, results, year, served) ==
    /\ total_pages' = pages
    /\ total_results' = results
    /\ this_year' = year
    /\ site' = served
    /\ scraping_stats' = [total_pages |-> pages,
                          total_results |-> results,
                          pages_completed |-> 0,
                          properties_extracted |-> 0,
                          duplicates_skipped |-> 0,
                          invalid_skipped |-> 0,
                          errors |-> <<>>]
    /\ all_properties' = <<>>
    /\ seen_property_hashes' = {}
    /\ prev_seen' = seen_property_hashes
    /\ yielded' = <<>>
    /\ last_page' = NoPage
    /\ tally' = NoTally
    /\ scrapes' = scrapes + 1
    /\ elapsed' = 0
    /\ page_num' = 1
    /\ pc' = "loop"
    /\ clock' = clock + 1

StartScrape ==
    /\ pc = "idle"
    /\ \E pages \in 0..MaxPages, results \in ResultCounts, year \in {2025, 2026} :
        BeginScrape(pages, results, year,
                    [contents |-> PageContents, seconds |-> PageSeconds,
                     failures |-> AnswersOrNot])
    /\ UNCHANGED <<pureVars, database, loaded, prev_database, current_properties,
                   prev_current, new_listings, changed_properties, trace, runs,
                   repeated, runVars>>

\* elapsed time is compared with the limit only: past it, it stays past it
Later(seconds) ==
    IF elapsed + seconds > TimeLimit THEN TimeLimit + 1 ELSE elapsed + seconds

\* lines 738-749: the end of a successful iteration, on the stats of lines 710-716
EndOfPage(stats, now_elapsed) ==
    /\ elapsed' = now_elapsed
    /\ IF now_elapsed > TimeLimit
       THEN /\ scraping_stats' = DictUpdate(stats, [stopped_early |-> TRUE,
                                                    stop_reason |-> "Time limit"])
            /\ pc' = "after"
            /\ page_num' = page_num
       ELSE /\ scraping_stats' = stats
            /\ pc' = IF page_num = total_pages THEN "after" ELSE "loop"
            /\ page_num' = page_num + 1

\* lines 701-716: the merge into the accumulator and the stats update
MergePage(merged, seen, now_elapsed) ==
    /\ all_properties' = merged
    /\ seen_property_hashes' = seen
    /\ EndOfPage(DictUpdate(scraping_stats,
                    [pages_completed |-> page_num,
                     properties_extracted |-> Len(merged),
                     duplicates_skipped |-> Cardinality(seen) - Len(merged),
                     current_page |-> page_num]),
                 now_elapsed)

\* lines 697-708: the page's records, each tagged with total_results
PageScanned(scan, now_elapsed, fetched) ==
    /\ yielded' = yielded \o scan.properties
    /\ last_page' = [page |-> page_num,
                     outcome |-> scan.outcome,
                     containers |-> scan.containers,
                     properties |-> scan.properties,
                     page_duplicates |-> scan.page_duplicates,
                     page_invalid |-> scan.page_invalid,
                     failures |-> fetched.failures,
                     requests |-> fetched.requests]
    /\ tally' = [duplicates |-> tally.duplicates + scan.page_duplicates,
                 invalid |-> tally.invalid + scan.page_invalid,
                 completed |-> tally.completed + 1]
    /\ MergePage(Accumulate(all_properties,
                            [i \in DOMAIN scan.properties |->
                                DictSet(scan.properties[i], "total_results_on_site",
                                        total_results)],
                            1),
                 scan.seen, now_elapsed)

\* lines 689-749: an iteration whose fetch succeeds and whose scan returns
ScrapePage ==
    /\ pc = "loop"
    /\ page_num <= total_pages
    /\ \E found \in site.contents, seconds \in site.seconds,
          failures \in site.failures :
        /\ ~Fetch(failures).raised
        /\ PageScanned(extract_properties_from_page(found, page_num,
                                                    seen_property_hashes,
                                                    clock, this_year),
                       Later(seconds), Fetch(failures))
    /\ UNCHANGED <<pureVars, detectVars, runVars, total_pages, total_results,
                   this_year, site, scrapes, prev_seen>>

\* lines 303-306, 386-390: the scan raises before it reaches the containers
\* (the parse of the response body fails); extract_properties_from_page
\* catches it and returns []
ScanRaised ==
    [properties |-> <<>>, page_duplicates |-> 0, page_invalid |-> 0,
     seen |-> seen_property_hashes, containers |-> <<>>, outcome |-> "scan raised"]

\* lines 689-749: an iteration whose fetch succeeds and whose scan raises
ScrapePageScanRaises ==
    /\ pc = "loop"
    /\ page_num <= total_pages
    /\ \E seconds \in site.seconds, failures \in site.failures :
        /\ ~Fetch(failures).raised
        /\ PageScanned(ScanRaised, Later(seconds), Fetch(failures))
    /\ UNCHANGED <<pureVars, detectVars, runVars, total_pages, total_results,
                   this_year, site, scrapes, prev_seen>>

\* lines 753-761: the end of a failed iteration
EndOfFailedPage(stats, now_elapsed) ==
    /\ elapsed' = now_elapsed
    /\ IF Len(stats.errors) > MaxErrors
       THEN /\ scraping_stats' = DictUpdate(stats, [stopped_early |-> TRUE,
                                                    stop_reason |-> "Too many errors"])
            /\ pc' = "after"
            /\ page_num' = page_num
       ELSE /\ scraping_stats' = stats
            /\ pc' = IF page_num = total_pages THEN "after" ELSE "loop"
            /\ page_num' = page_num + 1

\* lines 751-761: an iteration whose fetch raises (make_request gives up,
\* line 255); the error message "Page <n>: ..." is kept as n
ScrapePageError ==
    /\ pc = "loop"
    /\ page_num <= total_pages
    /\ \E seconds \in site.seconds, failures \in site.failures :
        /\ Fetch(failures).raised
        /\ EndOfFailedPage(DictSet(scraping_stats, "errors",
                                   Append(scraping_stats.errors, page_num)),
                           Later(seconds))
        /\ last_page' = [NoPage EXCEPT
                             !.page = page_num,
                             !.outcome = "fetch raised",
                             !.failures = failures,
                             !.requests = Fetch(failures).requests]
    /\ UNCHANGED <<pureVars, detectVars, runVars, total_pages, total_results,
                   this_year, all_properties, seen_property_hashes, site, scrapes,
                   yielded, prev_seen, tally>>

\* lines 763-796: after the loop
FinishScrape ==
    /\ \/ pc = "after"
       \/ pc = "loop" /\ page_num > total_pages
    /\ scraping_stats' =
           DictUpdate(scraping_stats,
               [total_properties_extracted |-> Len(all_properties),
                success_rate |-> success_rate(scraping_stats.pages_completed, total_pages),
                coverage_percentage |-> coverage_percentage(all_properties, total_results)])
    /\ pc' = "done"
    /\ UNCHANGED <<pureVars, detectVars, runVars, total_pages, total_results,
                   this_year, page_num, all_properties, seen_property_hashes, elapsed,
                   site, scrapes, yielded, last_page, prev_seen, tally>>

-----------------------------------------------------------------------------
(* Longer scrapes and repeated scrapes, against sites that serve less.     *)

\* pages of a long scrape
LongPages == 12

\* a site whose pages are empty or show one and the same listing, each page
\* attempt taking 150 seconds (make_request, lines 236-255: up to four tries
\* of 2 s delay and 30 s timeout, with 5, 10 and 15 s between them)
LongSite ==
    [contents |-> {q \in PageContents :
                      Len(q) <= 1 /\ \A i \in DOMAIN q : q[i].price = "RM204,000"},
     seconds |-> {150},
     failures |-> AnswersOrNot]

\* lines 667-688: a scrape of LongPages pages
StartLongScrape ==
    /\ pc = "idle"
    /\ BeginScrape(LongPages, 1650, 2025, LongSite)
    /\ UNCHANGED <<pureVars, database, loaded, prev_database, current_properties,
                   prev_current, new_listings, changed_properties, trace, runs,
                   repeated, runVars>>

\* requests in a row that a site fails
MaxFailures == 5

\* a site that fails some requests before it answers one, and shows one
\* listing or none
FlakySite ==
    [contents |-> {q \in PageContents :
                      Len(q) <= 1 /\ \A i \in DOMAIN q :
                                        q[i].price \in {"RM204,000", "RM195,000"}},
     seconds |-> {2},
     failures |-> 0..MaxFailures]

\* lines 667-688: a scrape of a site that fails requests
StartFlakyScrape ==
    /\ pc = "idle"
    /\ \E pages \in 1..MaxPages : BeginScrape(pages, 1650, 2025, FlakySite)
    /\ UNCHANGED <<pureVars, database, loaded, prev_database, current_properties,
                   prev_current, new_listings, changed_properties, trace, runs,
                   repeated, runVars>>

\* scrape_all_pages calls on one monitor object
MaxScrapes == 2

\* a site that shows one listing at two prices, quickly
RepeatSite ==
    [contents |-> {q \in PageContents :
                      \A i \in DOMAIN q : q[i].price \in {"RM204,000", "RM195,000"}},
     seconds |-> {2},
     failures |-> AnswersOrNot]

\* lines 667-688: a scrape on a monitor object that may have scraped before
ScrapeAgain ==
    /\ pc \in {"idle", "done"}
    /\ scrapes < MaxScrapes
    /\ \E pages \in 1..MaxPages : BeginScrape(pages, 1650, 2025, RepeatSite)
    /\ UNCHANGED <<pureVars, database, loaded, prev_database, current_properties,
                   prev_current, new_listings, changed_properties, trace, runs,
                   repeated, runVars>>

-----------------------------------------------------------------------------
(* run_monitoring: load, scrape, detect, save.                             *)

\* the two run_monitoring calls that can overlap on one store file
Racers == {1, 2}

\* a run_monitoring call that has not begun; loaded_at and saved_at number
\* its load and its save among the loads and saves of both calls
NotStarted ==
    [at |-> "start", database |-> <<>>, new_listings |-> <<>>,
     changed_properties |-> <<>>, loaded_at |-> 0, saved_at |-> 0]

NoRacers == [p \in Racers |-> NotStarted]

\* the store file a run can find: missing or unparsable, empty, or written
\* by an earlier revision
StoreFiles ==
    { [readable |-> FALSE, store |-> <<>>],
      [readable |-> TRUE, store |-> <<>>],
      [readable |-> TRUE, store |-> LegacyDatabase] }

\* lines 141-149
load_properties_database(file) == IF file.readable THEN file.store ELSE <<>>

\* a save that keeps the entries of the file that db does not have
save_properties_database_merging(file, db, how) ==
    IF how = "written"
    THEN [readable |-> TRUE,
          store |-> db \o SelectSeq(file.store, LAMBDA e : e.id \notin Keys(db))]
    ELSE IF how = "open raised" THEN file
    ELSE [readable |-> FALSE, store |-> <<>>]

\* lines 151-160: the file after save_properties_database; open() can
\* raise before the file is touched, and the dump can raise after open()
\* has truncated it
save_properties_database(file, db, how) ==
    IF how = "written" THEN [readable |-> TRUE, store |-> db]
    ELSE IF how = "open raised" THEN file
    ELSE [readable |-> FALSE, store |-> <<>>]

SaveOutcomes == {"written", "open raised", "dump raised"}

WaitingRun ==
    /\ rpc = "start"
    /\ saved \in StoreFiles
    /\ opened = saved
    /\ outcome = ""
    /\ notifications = <<>>
    /\ racers = NoRacers

\* lines 1253-1254
RunLoad ==
    /\ rpc = "start"
    /\ opened' = saved
    /\ database' = load_properties_database(saved)
    /\ loaded' = load_properties_database(saved)
    /\ prev_database' = load_properties_database(saved)
    /\ rpc' = "loaded"
    /\ UNCHANGED <<pureVars, scrapeVars, saved, outcome, notifications, racers,
                   current_properties, prev_current, new_listings, changed_properties,
                   trace, runs, repeated, clock>>

\* lines 1256-1259: get_total_pages_and_results, then the scrape begins
RunScrape ==
    /\ rpc = "loaded"
    /\ pc = "idle"
    /\ \E pages \in 0..MaxPages, results \in {0, 1650}, year \in {2025, 2026} :
        BeginScrape(pages, results, year,
                    [contents |-> PageContents, seconds |-> PageSeconds,
                     failures |-> AnswersOrNot])
    /\ rpc' = "scraping"
    /\ UNCHANGED <<pureVars, database, loaded, prev_database, current_properties,
                   prev_current, new_listings, changed_properties, trace, runs,
                   repeated, saved, opened, outcome, notifications, racers>>

\* the first pages a run can meet: a site that answers or not, a body that
\* parses or not, a result text with digits or without, no page link
FirstPagesOfRun ==
    {first \in FirstPages :
        first.result_text \in {<<"21">>, <<",">>} /\ first.page_links = <<>>}

\* a site whose pages all show the same single listing, and one that
\* answers no request
SteadySites ==
    { [contents |-> {q \in PageContents :
                        Len(q) = 1 /\ \A i \in DOMAIN q : q[i].price = "RM204,000"},
       seconds |-> {2},
       failures |-> {0}],
      [contents |-> {<<>>}, seconds |-> {2}, failures |-> {max_retries + 1}] }

\* line 1256: total_results, total_pages = self.get_total_pages_and_results()
RunCountPages ==
    /\ rpc = "loaded"
    /\ \E first \in FirstPagesOfRun :
        /\ fn' = "get_total_pages_and_results"
        /\ arg_props' = <<first>>
        /\ ret_value' = get_total_pages_and_results(first)
    /\ rpc' = "counted"
    /\ UNCHANGED <<arg_text, arg_year, ret_valid, ret_keys, ret_ids, ret_hashes,
                   detectVars, scrapeVars, saved, opened, outcome, notifications, racers>>

\* lines 1257-1259: scrape_all_pages(total_pages, total_results) begins
RunScrapeCounted ==
    /\ rpc = "counted"
    /\ pc = "idle"
    /\ \E served \in SteadySites :
        BeginScrape(ret_value[2], ret_value[1], 2025, served)
    /\ rpc' = "scraping"
    /\ UNCHANGED <<pureVars, database, loaded, prev_database, current_properties,
                   prev_current, new_listings, changed_properties, trace, runs,
                   repeated, saved, opened, outcome, notifications, racers>>

\* lines 1256-1259: scrape_all_pages has returned this accumulator
RunScraped ==
    /\ rpc = "loaded"
    /\ pc = "idle"
    /\ \E snapshot \in Snapshots :
        /\ clock' = clock + 1
        /\ all_properties' = Stamped(snapshot, clock + 1)
    /\ pc' = "done"
    /\ rpc' = "scraping"
    /\ UNCHANGED <<pureVars, database, loaded, prev_database, current_properties,
                   prev_current, new_listings, changed_properties, trace, runs,
                   repeated, total_pages, total_results, page_num, scraping_stats,
                   seen_property_hashes, elapsed, this_year, site, scrapes, yielded,
                   last_page, prev_seen, tally, saved, opened, outcome,
                   notifications, racers>>

\* loads and saves of the two calls so far
Accesses ==
    Cardinality({p \in Racers : racers[p].loaded_at # 0})
        + Cardinality({p \in Racers : racers[p].saved_at # 0})

\* lines 1253-1254, in call p
RaceLoad(p) ==
    /\ racers[p].at = "start"
    /\ racers' = [racers EXCEPT ![p] = [@ EXCEPT
                                           !.at = "loaded",
                                           !.database = load_properties_database(saved),
                                           !.loaded_at = Accesses + 1]]
    /\ UNCHANGED <<pureVars, detectVars, scrapeVars, rpc, saved, opened, outcome,
                   notifications>>

\* the accumulators the scrapes of two overlapping calls return: one record
RaceSnapshots == {snapshot \in Snapshots : Len(snapshot) = 1}

\* lines 1272-1274, on what detect_changes returns
RaceDetected(p, out) ==
    racers' = [racers EXCEPT ![p] = [@ EXCEPT
                                        !.at = "detected",
                                        !.database = out.database,
                                        !.new_listings = out.new_listings,
                                        !.changed_properties = out.changed_properties]]

\* lines 1256-1274, in call p: the scrape returns an accumulator and
\* detect_changes runs on it and on the store this call loaded
RaceDetect(p) ==
    /\ racers[p].at = "loaded"
    /\ \E snapshot \in RaceSnapshots :
        RaceDetected(p, detect_changes(Stamped(snapshot, p), racers[p].database))
    /\ UNCHANGED <<pureVars, detectVars, scrapeVars, rpc, saved, opened, outcome,
                   notifications>>

\* line 1275, in call p: the whole file is written from this call's store
RaceSave(p) ==
    /\ racers[p].at = "detected"
    /\ saved' = save_properties_database(saved, racers[p].database, "written")
    /\ racers' = [racers EXCEPT ![p] = [@ EXCEPT
                                           !.at = "done",
                                           !.saved_at = Accesses + 1]]
    /\ UNCHANGED <<pureVars, detectVars, scrapeVars, rpc, opened, outcome,
                   notifications>>

RaceLoads == \E p \in Racers : RaceLoad(p)
RaceDetects == \E p \in Racers : RaceDetect(p)
RaceSaves == \E p \in Racers : RaceSave(p)

\* line 1261: if not current_properties
ScrapeFailed_never(current) == FALSE

ScrapeFailed(current) == current = <<>>

\* lines 1261-1270: the failure notification and the early return
RunFails ==
    /\ notifications' = Append(notifications, "Fixed Scraping Failed")
    /\ outcome' = "Fixed scraping failed"
    /\ UNCHANGED <<detectVars, saved>>

\* lines 1272-1334: detect_changes has returned out; save, summary, return
RunCompletes(out) ==
    /\ prev_database' = database
    /\ prev_current' = current_properties
    /\ database' = out.database
    /\ current_properties' = out.current_properties
    /\ new_listings' = out.new_listings
    /\ changed_properties' = out.changed_properties
    /\ trace' = out.trace
    /\ runs' = runs + 1
    /\ \E how \in SaveOutcomes :
        saved' = save_properties_database(saved, out.database, how)
    /\ notifications' = Append(notifications, "Daily summary")
    /\ outcome' = "Fixed full scraping complete"
    /\ UNCHANGED <<loaded, repeated, clock>>

\* lines 1261-1334: run_monitoring once scrape_all_pages has returned
RunFinish ==
    /\ rpc = "scraping"
    /\ pc = "done"
    /\ IF ScrapeFailed(all_properties)
       THEN RunFails
       ELSE RunCompletes(detect_changes(all_properties, database))
    /\ rpc' = "done"
    /\ UNCHANGED <<pureVars, scrapeVars, opened, racers>>

-----------------------------------------------------------------------------
(* Specifications.                                                         *)

\* one application of one helper to one input
IdleRun ==
    /\ rpc = "idle"
    /\ saved = [readable |-> FALSE, store |-> <<>>]
    /\ opened = saved
    /\ outcome = ""
    /\ notifications = <<>>
    /\ racers = NoRacers

InitHelpers == InitPure /\ IdleDetect /\ IdleScrape /\ IdleRun

NextPure ==
    ApplyValidatePrice \/ ApplyValidateAuctionDate \/ ApplyKeys \/ ApplyTotalPages

SpecPure == InitHelpers /\ [][NextPure]_vars

\* runs of the change detector, starting from an empty or a legacy store
Init == InitPure /\ InitDetect /\ IdleScrape /\ IdleRun

Next == RunFresh \/ RunSame

Spec == Init /\ [][Next]_vars

\* one scrape_all_pages call
InitScrape == InitPure /\ IdleDetect /\ IdleScrape /\ IdleRun

NextScrape ==
    StartScrape \/ ScrapePage \/ ScrapePageScanRaises \/ ScrapePageError \/ FinishScrape

SpecScrape == InitScrape /\ [][NextScrape]_vars

\* one long scrape_all_pages call
InitLongScrape == InitPure /\ IdleDetect /\ IdleScrape /\ IdleRun

NextLongScrape ==
    StartLongScrape \/ ScrapePage \/ ScrapePageScanRaises \/ ScrapePageError
        \/ FinishScrape

SpecLongScrape == InitLongScrape /\ [][NextLongScrape]_vars

\* scrape_all_pages calls on one monitor object, one after the other
InitRescrape == InitPure /\ IdleDetect /\ IdleScrape /\ IdleRun

NextRescrape ==
    ScrapeAgain \/ ScrapePage \/ ScrapePageScanRaises \/ ScrapePageError
        \/ FinishScrape

SpecRescrape == InitRescrape /\ [][NextRescrape]_vars

\* one scrape_all_pages call against a site that fails requests
InitFlaky == InitPure /\ IdleDetect /\ IdleScrape /\ IdleRun

NextFlaky ==
    StartFlakyScrape \/ ScrapePage \/ ScrapePageScanRaises \/ ScrapePageError
        \/ FinishScrape

SpecFlaky == InitFlaky /\ [][NextFlaky]_vars

\* one run_monitoring call
InitRun == InitPure /\ IdleDetect /\ IdleScrape /\ WaitingRun

NextRun ==
    RunLoad \/ RunScrape \/ ScrapePage \/ ScrapePageScanRaises \/ ScrapePageError
        \/ FinishScrape \/ RunFinish

SpecRun == InitRun /\ [][NextRun]_vars

\* one run_monitoring call, from the first page on, against a site whose
\* later pages all parse
InitFallback == InitPure /\ IdleDetect /\ IdleScrape /\ WaitingRun

NextFallback ==
    RunLoad \/ RunCountPages \/ RunScrapeCounted \/ ScrapePage \/ ScrapePageError
        \/ FinishScrape \/ RunFinish

SpecFallback == InitFallback /\ [][NextFallback]_vars

\* one run_monitoring call, seen from the store: what it loads, what the
\* scrape returns, what it saves
InitStore == InitPure /\ IdleDetect /\ IdleScrape /\ WaitingRun

NextStore == RunLoad \/ RunScraped \/ RunFinish

SpecStore == InitStore /\ [][NextStore]_vars

\* two run_monitoring calls that overlap in time on one store file
InitRace == InitPure /\ IdleDetect /\ IdleScrape /\ WaitingRun

NextRace == RaceLoads \/ RaceDetects \/ RaceSaves

SpecRace == InitRace /\ [][NextRace]_vars

-----------------------------------------------------------------------------
(* Properties.                                                             *)

SameListing(r1, r2) ==
    r1.title = r2.title /\ r1.location = r2.location /\ r1.size = r2.size

\* C1: two records that differ only in price and/or auction_date have the
\* same stable key and the same property id.
C1_StableKeyInvariance ==
    (fn = "keys" /\ SameListing(arg_props[1], arg_props[2]))
        => (ret_keys[1] = ret_keys[2] /\ ret_ids[1] = ret_ids[2])

C1_Witness ==
    /\ fn = "keys"
    /\ SameListing(arg_props[1], arg_props[2])
    /\ arg_props[1].price # arg_props[2].price
    /\ arg_props[1].auction_date # arg_props[2].auction_date
    /\ ret_keys[1] = ret_keys[2]
    /\ ret_ids[1] = ret_ids[2]

\* C7 as stated: two records with the same title, location and size that
\* differ in price or in auction_date have different run-local hashes and
\* the same stable key.
C7_HashSensitivity_Stated ==
    (/\ fn = "keys"
     /\ SameListing(arg_props[1], arg_props[2])
     /\ \/ arg_props[1].price # arg_props[2].price
        \/ arg_props[1].auction_date # arg_props[2].auction_date)
        => (ret_hashes[1] # ret_hashes[2] /\ ret_keys[1] = ret_keys[2])

\* C7 as amended: two records with the same title, location and size whose
\* price or auction_date differ by more than the case of their letters have
\* different run-local hashes and the same stable key.
C7_HashSensitivity ==
    (/\ fn = "keys"
     /\ SameListing(arg_props[1], arg_props[2])
     /\ \/ Lower(arg_props[1].price) # Lower(arg_props[2].price)
        \/ Lower(arg_props[1].auction_date) # Lower(arg_props[2].auction_date))
        => (ret_hashes[1] # ret_hashes[2] /\ ret_keys[1] = ret_keys[2])

C7_Witness ==
    /\ fn = "keys"
    /\ SameListing(arg_props[1], arg_props[2])
    /\ arg_props[1].price = arg_props[2].price
    /\ Lower(arg_props[1].auction_date) # Lower(arg_props[2].auction_date)
    /\ ret_hashes[1] # ret_hashes[2]
    /\ ret_keys[1] = ret_keys[2]

\* the number v that the digits of a price text spell, for a text with at
\* least one digit and no decimal point
SpellsNumber(text) == OnlyDigits(text) # "" /\ ~Contains(text, ".")
Promoted(v) == IF v < 1000 THEN v * 1000 ELSE v

\* C8: for a price text whose digits spell v, validate_price returns the value
\* v' = v*1000 if v < 1000 and v' = v otherwise, with ok exactly when
\* min_price <= v' <= max_price; "RM49,999" is rejected, "RM50,000" is
\* accepted with 50000 and "RM350" is accepted with 350000.
C8_PriceValidation ==
    /\ (fn = "validate_price" /\ SpellsNumber(arg_text))
        => LET v == Promoted(ParseInt(OnlyDigits(arg_text)))
           IN /\ ret_value = v
              /\ ret_valid = (min_price <= v /\ v <= max_price)
    /\ (fn = "validate_price" /\ arg_text = "RM49,999") => ~ret_valid
    /\ (fn = "validate_price" /\ arg_text = "RM50,000")
        => (ret_valid /\ ret_value = 50000)
    /\ (fn = "validate_price" /\ arg_text = "RM350")
        => (ret_valid /\ ret_value = 350000)

C8_Witness ==
    /\ fn = "validate_price"
    /\ arg_text = "RM350"
    /\ ret_valid
    /\ ret_value = 350000

\* the maximal runs of non-blank characters of a text, in order
RECURSIVE Tokens(_)
Tokens(s) ==
    LET t == LStrip(s)
        n == IF t = "" THEN 0
             ELSE IF \A i \in 1..Len(t) : ~IsSpace(At(t, i)) THEN Len(t)
             ELSE (CHOOSE i \in 1..Len(t) :
                      IsSpace(At(t, i)) /\ \A j \in 1..(i - 1) : ~IsSpace(At(t, j))) - 1
    IN IF t = "" THEN <<>>
       ELSE <<SubSeq(t, 1, n)>> \o Tokens(SubSeq(t, n + 1, Len(t)))

AllIn(s, chars) == \A i \in 1..Len(s) : At(s, i) \in chars

\* the text starts with a day of one or two digits, a month of three word
\* characters, a year of four digits and a weekday of three word characters
\* in parentheses, blanks between them
HasDateShape(s) ==
    LET t == Tokens(s)
    IN /\ s # "" /\ ~IsSpace(At(s, 1))
       /\ Len(t) >= 4
       /\ Len(t[1]) \in {1, 2} /\ AllIn(t[1], DigitChars)
       /\ Len(t[2]) = 3 /\ AllIn(t[2], WordChars)
       /\ Len(t[3]) = 4 /\ AllIn(t[3], DigitChars)
       /\ Len(t[4]) >= 5
       /\ At(t[4], 1) = "(" /\ AllIn(SubSeq(t[4], 2, 4), WordChars) /\ At(t[4], 5) = ")"

C2_Idempotence ==
    (runs >= 2 /\ repeated) => (new_listings = <<>> /\ changed_properties = <<>>)

\* C3: after a run no record-id is a key of new_listings and of
\* changed_properties, so no current record is reported as new and as changed.
C3_NewChangedDisjoint ==
    Keys(new_listings) \cap Keys(changed_properties) = {}

\* the latest two runs saw one record each, the same listing on the same
\* auction date at two prices
PriceOnlyRerun ==
    /\ runs = 2
    /\ loaded = <<>>
    /\ Len(prev_current) = 1
    /\ Len(current_properties) = 1
    /\ SameListing(prev_current[1].data, current_properties[1].data)
    /\ prev_current[1].data.auction_date = current_properties[1].data.auction_date
    /\ prev_current[1].data.price # current_properties[1].data.price

\* C4: from an empty store, a run on one record reports 1 new and 0 changed
\* and leaves one entry with a price_history of length 1; a second run on the
\* same listing and auction date at another price reports 0 new and 1 changed
\* with the single change ("Auction Price", first price, second price), and
\* leaves the one entry under the same record-id and stable key with a
\* price_history of length 2.
C4_TwoRunScenario ==
    /\ (runs = 1 /\ loaded = <<>> /\ Len(current_properties) = 1)
        => /\ Len(new_listings) = 1
           /\ changed_properties = <<>>
           /\ Len(database) = 1
           /\ Len(database[1].data.price_history) = 1
    /\ PriceOnlyRerun
        => /\ new_listings = <<>>
           /\ Len(changed_properties) = 1
           /\ Len(changed_properties[1].data.changes) = 1
           /\ changed_properties[1].data.changes[1].field = "Auction Price"
           /\ changed_properties[1].data.changes[1].old_value = prev_current[1].data.price
           /\ changed_properties[1].data.changes[1].new_value
                  = current_properties[1].data.price
           /\ Len(database) = 1
           /\ database[1].id = prev_database[1].id
           /\ database[1].id = current_properties[1].id
           /\ changed_properties[1].id = database[1].id
           /\ database[1].data._stable_key = prev_database[1].data._stable_key
           /\ Len(database[1].data.price_history) = 2

C4_Witness ==
    /\ PriceOnlyRerun
    /\ Len(changed_properties) = 1
    /\ Len(database[1].data.price_history) = 2

\* C5: an entry inserted by detect_changes keeps its first_seen through every
\* later run.
C5_FirstSeenPreserved ==
    loaded = <<>>
        => \A i \in DOMAIN prev_database :
              Item(database, prev_database[i].id).first_seen
                  = prev_database[i].data.first_seen

\* C6: when a run matches a record with a placeholder title to an entry with a
\* non-empty title that is no placeholder, the entry keeps its title.
C6_TitlePreserved ==
    (/\ runs >= 1
     /\ Len(current_properties) = 1
     /\ current_properties[1].id \in Keys(prev_database)
     /\ StartsWith(current_properties[1].data.title, PlaceholderPrefix)
     /\ Item(prev_database, current_properties[1].id).title # ""
     /\ ~StartsWith(Item(prev_database, current_properties[1].id).title,
                    PlaceholderPrefix))
        => Item(database, current_properties[1].id).title
               = Item(prev_database, current_properties[1].id).title


-----------------------------------------------------------------------------
(* Coverage.                                                               *)

\* the fraction f is the value of a / b
IsQuotient(f, a, b) == f.den > 0 /\ f.num * b = a * f.den

\* C10: when scrape_all_pages has returned, the coverage it reports is
\* (records in the accumulator / total_results) * 100 if total_results > 0
\* and 0 if total_results = 0, on the accumulator as the loop left it, after
\* a complete run and after an early stop alike.
C10_Coverage ==
    pc = "done" =>
        /\ "coverage_percentage" \in DOMAIN scraping_stats
        /\ IF total_results > 0
           THEN IsQuotient(scraping_stats.coverage_percentage,
                           Len(all_properties) * 100, total_results)
           ELSE IsQuotient(scraping_stats.coverage_percentage, 0, 1)

\* a scrape stopped by the time limit with two records against 1650 results
C10_Witness ==
    /\ pc = "done"
    /\ "stopped_early" \in DOMAIN scraping_stats
    /\ total_results = 1650
    /\ Len(all_properties) = 2
    /\ scraping_stats.coverage_percentage = [num |-> 4, den |-> 33]


-----------------------------------------------------------------------------
(* The store across runs, and the classification of each record.           *)

IsPrefix(a, b) == Len(a) <= Len(b) /\ SubSeq(b, 1, Len(a)) = a

\* a history list of an entry, empty when the entry has none
History(entry, name) == DictGet(entry, name, <<>>)

\* C11: the store is append-only across detect_changes runs: every
\* record-id of the store before a run is in the store after it, and each
\* entry's price_history and auction_date_history before the run are
\* prefixes of its histories after the run.
C11_AppendOnly ==
    \A i \in DOMAIN prev_database :
        /\ prev_database[i].id \in Keys(database)
        /\ IsPrefix(History(prev_database[i].data, "price_history"),
                    History(Item(database, prev_database[i].id), "price_history"))
        /\ IsPrefix(History(prev_database[i].data, "auction_date_history"),
                    History(Item(database, prev_database[i].id), "auction_date_history"))

\* a second run that appends to both histories of an entry the first run made
C11_Witness ==
    /\ runs = 2
    /\ \E i \in DOMAIN prev_database :
        /\ Len(History(prev_database[i].data, "price_history")) = 1
        /\ Len(History(prev_database[i].data, "auction_date_history")) = 1
        /\ Len(History(Item(database, prev_database[i].id), "price_history")) = 2
        /\ Len(History(Item(database, prev_database[i].id), "auction_date_history")) = 2

\* the iteration t classified its record as new
IsNew(t) == t.current_id \in Keys(t.new_after)

\* the store entry the iteration t matched its record to
MatchOf(t) ==
    IF t.current_id \in Keys(t.database_before) THEN t.current_id
    ELSE t.index_before[t.current_data._stable_key]

\* C14: a current record is classified as new exactly when its record-id is
\* not a key of the store and its stable key is not the stable key of any
\* entry of the store as it stands (entries inserted earlier in the run
\* included); a new record is inserted under its own id with one-entry
\* price_history and auction_date_history taken from this sighting.
C14_NewClassification ==
    \A k \in DOMAIN trace :
        LET t == trace[k]
        IN /\ IsNew(t) <=>
                /\ t.current_id \notin Keys(t.database_before)
                /\ \A i \in DOMAIN t.database_before :
                       DictGet(t.database_before[i].data, "_stable_key", "")
                           # t.current_data._stable_key
           /\ IsNew(t) =>
                /\ t.current_id \in Keys(t.database_after)
                /\ Item(t.database_after, t.current_id).price_history =
                       <<[price |-> t.current_data.price,
                          date |-> t.current_data.last_updated]>>
                /\ Item(t.database_after, t.current_id).auction_date_history =
                       <<[auction_date |-> t.current_data.auction_date,
                          date |-> t.current_data.last_updated]>>

\* the change items (field, old, new) expected for a record against an entry
ExpectedChanges(old, cur) ==
    (IF cur.price # old.price
     THEN <<[field |-> "Auction Price", old_value |-> old.price,
             new_value |-> cur.price]>>
     ELSE <<>>)
    \o
    (IF cur.auction_date # old.auction_date
     THEN <<[field |-> "Auction Date", old_value |-> old.auction_date,
             new_value |-> cur.auction_date]>>
     ELSE <<>>)

ReportedChanges(report) ==
    [j \in DOMAIN report.changes |->
        [field |-> report.changes[j].field,
         old_value |-> report.changes[j].old_value,
         new_value |-> report.changes[j].new_value]]

\* the iteration t reported what it had to: an entry under the matched id
\* with one item per differing field, or nothing when no field differs
ReportsExactly(t) ==
    LET old == Item(t.database_before, MatchOf(t))
        expected == ExpectedChanges(old, t.current_data)
    IN IF expected = <<>>
       THEN t.changed_after = t.changed_before
       ELSE /\ MatchOf(t) \in Keys(t.changed_after)
            /\ ReportedChanges(Item(t.changed_after, MatchOf(t))) = expected

\* growth of the history list name in iteration t
Growth(t, name) ==
    Len(History(Item(t.database_after, MatchOf(t)), name))
        - Len(History(Item(t.database_before, MatchOf(t)), name))

\* C15 as stated: a matched record yields a changed_properties entry exactly
\* when price or auction_date differ from the stored snapshot, with one
\* change item per differing field (old = stored, new = current), and each
\* history grows by exactly one entry for a differing field, by none
\* otherwise.
C15_ChangedClassification_Stated ==
    \A k \in DOMAIN trace :
        LET t == trace[k]
            old == Item(t.database_before, MatchOf(t))
        IN ~IsNew(t) =>
            /\ ReportsExactly(t)
            /\ Growth(t, "price_history") =
                   IF t.current_data.price # old.price THEN 1 ELSE 0
            /\ Growth(t, "auction_date_history") =
                   IF t.current_data.auction_date # old.auction_date THEN 1 ELSE 0

\* the history list name of the matched entry after iteration t is the list
\* before it, seeded with the stored value when the entry had no list, plus
\* the current value when the field differs
GrowsLazily(t, name, field) ==
    LET old == Item(t.database_before, MatchOf(t))
        before == History(old, name)
        after == History(Item(t.database_after, MatchOf(t)), name)
    IN IF t.current_data[field] = old[field]
       THEN after = before
       ELSE /\ Len(after) = (IF name \in DOMAIN old THEN Len(before) ELSE 1) + 1
            /\ after[Len(after)][field] = t.current_data[field]
            /\ name \in DOMAIN old => IsPrefix(before, after)
            /\ name \notin DOMAIN old => after[1][field] = old[field]

\* C15: as stated, but a history list the entry did not have is first
\* seeded with the stored value, and then grows by the current value.
C15_ChangedClassification ==
    \A k \in DOMAIN trace :
        LET t == trace[k]
        IN ~IsNew(t) =>
            /\ ReportsExactly(t)
            /\ GrowsLazily(t, "price_history", "price")
            /\ GrowsLazily(t, "auction_date_history", "auction_date")

\* a matched record with both fields differing, against an entry with
\* histories, and a matched record against an entry without them
C15_Witness ==
    /\ runs = 2
    /\ \E k \in DOMAIN trace :
        /\ ~IsNew(trace[k])
        /\ Len(ExpectedChanges(Item(trace[k].database_before, MatchOf(trace[k])),
                               trace[k].current_data)) = 2
        /\ Growth(trace[k], "price_history") = 1
        /\ Growth(trace[k], "auction_date_history") = 1
    /\ \E i \in DOMAIN loaded : "price_history" \notin DOMAIN loaded[i].data


-----------------------------------------------------------------------------
(* run_monitoring and the records it handles.                              *)

\* C12: when scrape_all_pages returns an empty accumulator, run_monitoring
\* returns "Fixed scraping failed" after attempting the failure notification,
\* and only then; detect_changes is not run and the store is not saved: the
\* store file is as the run found it.
C12_ScrapeFailure ==
    rpc = "done" =>
        /\ (all_properties = <<>>) <=> (outcome = "Fixed scraping failed")
        /\ all_properties = <<>> =>
            /\ notifications = <<"Fixed Scraping Failed">>
            /\ runs = 0
            /\ trace = <<>>
            /\ database = loaded
            /\ saved = opened

\* two pages scraped, nothing valid on them, a store with an entry on file
C12_Witness ==
    /\ rpc = "done"
    /\ outcome = "Fixed scraping failed"
    /\ scraping_stats.pages_completed = 2
    /\ last_page.page_invalid > 0
    /\ opened = [readable |-> TRUE, store |-> LegacyDatabase]
    /\ saved = opened

\* the year an auction date text names
YearOf(date_text) == ParseInt(Tokens(date_text)[3])

\* a record with an admissible price value and auction year
IsValidated(r, year) ==
    /\ min_price <= r.price_value /\ r.price_value <= max_price
    /\ YearOf(r.auction_date) \in {year, year + 1}

\* a container whose price and date texts are admissible
IsAdmissible(container, year) ==
    /\ SpellsNumber(container.price)
    /\ min_price <= Promoted(ParseInt(OnlyDigits(container.price)))
    /\ Promoted(ParseInt(OnlyDigits(container.price))) <= max_price
    /\ HasDateShape(container.auction_date)
    /\ YearOf(container.auction_date) \in {year, year + 1}

\* C13: every record the extraction produced, so every record of the
\* accumulator and every store entry inserted from it, has a price_value in
\* [min_price, max_price] and an auction year that is the current year or
\* the next; a container whose price or date fails validation gives no
\* record (it is one of the page's invalid containers).
C13_ValidatedRecords ==
    /\ \A i \in DOMAIN yielded : IsValidated(yielded[i], this_year)
    /\ \A i \in DOMAIN all_properties : IsValidated(all_properties[i].data, this_year)
    /\ \A i \in DOMAIN new_listings :
           IsValidated(Item(database, new_listings[i].id), this_year)
    /\ last_page.outcome = "scanned" =>
        LET bad == {i \in DOMAIN last_page.containers :
                       ~IsAdmissible(last_page.containers[i], this_year)}
        IN /\ last_page.page_invalid = Cardinality(bad)
           /\ Len(last_page.properties) + last_page.page_duplicates
                  = Len(last_page.containers) - Cardinality(bad)

\* a run that inserted an entry scraped from a page that also showed a
\* container with an inadmissible date
C13_Witness ==
    /\ rpc = "done"
    /\ new_listings # <<>>
    /\ last_page.page_invalid = 1
    /\ Len(last_page.properties) = 1
    /\ \E i \in DOMAIN last_page.containers :
           /\ SpellsNumber(last_page.containers[i].price)
           /\ YearOf(last_page.containers[i].auction_date) \notin {this_year, this_year + 1}

-----------------------------------------------------------------------------
(* The scrape loop: stop conditions, merge, duplicates.                    *)

\* the loop has been left early for the reason given
StoppedFor(reason) ==
    /\ pc \in {"after", "done"}
    /\ DictGet(scraping_stats, "stopped_early", FALSE)
    /\ DictGet(scraping_stats, "stop_reason", "") = reason

\* C16: after any page attempt, scraped or failed, if more than 1200
\* seconds have passed since the start, the loop attempts no further page:
\* it has stopped with stopped_early and stop_reason "Time limit".
C16_TimeLimitAfterEachPage ==
    (last_page.outcome # "none" /\ elapsed > TimeLimit) => StoppedFor("Time limit")

\* C17: a page whose fetch or scan raises is recorded in the errors list;
\* with at most 10 errors the loop goes on to the next page, with 11 it
\* stops with stopped_early and stop_reason "Too many errors"; the list
\* never holds more than 11 entries and the records of earlier pages stay
\* in the accumulator.
C17_ErrorsRecorded ==
    pc # "idle" =>
        /\ last_page.outcome \in {"fetch raised", "scan raised"} =>
            /\ scraping_stats.errors # <<>>
            /\ scraping_stats.errors[Len(scraping_stats.errors)] = last_page.page
        /\ Len(scraping_stats.errors) <= MaxErrors + 1
        /\ Len(scraping_stats.errors) = MaxErrors + 1 => StoppedFor("Too many errors")
        /\ (last_page.outcome = "fetch raised" /\ Len(scraping_stats.errors) <= MaxErrors
                /\ pc = "loop") => page_num = last_page.page + 1
        /\ \A i \in DOMAIN yielded :
               create_property_id(yielded[i].title, yielded[i].location, yielded[i].size)
                   \in Keys(all_properties)

\* the coverage ceiling and the pages after which it applies
CoverageCeiling == 150
MinCoveragePages == 1

\* C18: once the coverage (accumulated records / total_results) exceeds
\* the 150% ceiling after the minimum number of pages, scrape_all_pages
\* scrapes no further page: it has stopped with reason "Coverage too high".
C18_CoverageCeiling ==
    (/\ pc # "idle"
     /\ scraping_stats.pages_completed >= MinCoveragePages
     /\ total_results > 0
     /\ Len(all_properties) * 100 > CoverageCeiling * total_results)
        => StoppedFor("Coverage too high")

IdOf(r) == create_property_id(r.title, r.location, r.size)

\* the record with this id that the page scans returned last
LastYielded(id) ==
    yielded[CHOOSE j \in DOMAIN yielded :
                /\ IdOf(yielded[j]) = id
                /\ \A k \in DOMAIN yielded : IdOf(yielded[k]) = id => k <= j]

\* C19: the accumulator is keyed by create_property_id, last write wins:
\* for every record-id it holds the record with that id that the page
\* scans returned last (page order, then extraction order), and its size is
\* the number of distinct record-ids among the records returned.
C19_LastWriteWins ==
    /\ Keys(all_properties) = {IdOf(yielded[j]) : j \in DOMAIN yielded}
    /\ Len(all_properties) = Cardinality({IdOf(yielded[j]) : j \in DOMAIN yielded})
    /\ \A i \in DOMAIN all_properties :
           all_properties[i].data =
               DictSet(LastYielded(all_properties[i].id), "total_results_on_site",
                       total_results)

\* page 2 showed the listing of page 1 at another price
C19_Witness ==
    /\ pc = "done"
    /\ Len(yielded) = 2
    /\ yielded[1].page_number = 1 /\ yielded[1].price = "RM204,000"
    /\ yielded[2].page_number = 2 /\ yielded[2].price = "RM195,000"
    /\ Len(all_properties) = 1
    /\ all_properties[1].data.price = "RM195,000"

\* C20: within one scrape no two records returned by the page scans share
\* a hash, and the set of seen hashes holds the hashes of this scrape only:
\* it was emptied at the start, so a record is returned again by a second
\* scrape on the same monitor object.
C20_RunLocalHashes ==
    /\ \A i, j \in DOMAIN yielded :
           i # j => HashOf(yielded[i]) # HashOf(yielded[j])
    /\ \A i \in DOMAIN yielded : yielded[i].property_hash = HashOf(yielded[i])
    /\ seen_property_hashes = {HashOf(yielded[i]) : i \in DOMAIN yielded}

\* a second scrape returned a record the first one had seen, and dropped
\* its repetition on a later page
C20_Witness ==
    /\ scrapes = 2
    /\ pc = "done"
    /\ \E i \in DOMAIN yielded : HashOf(yielded[i]) \in prev_seen
    /\ last_page.page = 2
    /\ last_page.page_duplicates > 0

-----------------------------------------------------------------------------
(* The counters of ScrapingStats.                                          *)

\* C21: at the end of scrape_all_pages, duplicates_skipped is the number
\* of extracted records dropped because their hash had been seen in this
\* scrape, and invalid_skipped is the number of containers whose extraction
\* failed or was rejected by validation.
C21_SkippedCounts ==
    pc = "done" =>
        /\ scraping_stats.duplicates_skipped = tally.duplicates
        /\ scraping_stats.invalid_skipped = tally.invalid

-----------------------------------------------------------------------------
(* The page count.                                                         *)

\* n is ceil(a / b)
IsCeiling(n, a, b) == n * b >= a /\ (n - 1) * b < a

\* n is ceil(a / b) capped at c
IsCappedCeiling(n, a, b, c) ==
    \/ n < c /\ IsCeiling(n, a, b)
    \/ n = c /\ (c - 1) * b < a

\* the page=N numbers of a first page
LinkNumbers(first) == {ParseInt(first.page_links[i]) : i \in DOMAIN first.page_links}

\* the try block of get_total_pages_and_results returned
Counted(first) ==
    /\ first.failures <= max_retries
    /\ first.parsed
    /\ first.result_text # <<",">>

\* C22 as stated: total_pages is the largest page=N number of the first
\* page when it has such a link, and otherwise ceil(total_results / 20)
\* capped at 100, for every total_results >= 0.
C22_TotalPages_Stated ==
    (fn = "get_total_pages_and_results" /\ Counted(arg_props[1])) =>
        IF arg_props[1].page_links # <<>>
        THEN /\ ret_value[2] \in LinkNumbers(arg_props[1])
             /\ \A n \in LinkNumbers(arg_props[1]) : n <= ret_value[2]
        ELSE IsCappedCeiling(ret_value[2], ret_value[1], ResultsPerPage, PageCeiling)

\* C22: total_pages is the largest page=N number of the first page when it
\* has such a link; otherwise it is ceil(total_results / 20) capped at 100
\* when total_results >= 1, and 1 when total_results = 0.
C22_TotalPages ==
    (fn = "get_total_pages_and_results" /\ Counted(arg_props[1])) =>
        IF arg_props[1].page_links # <<>>
        THEN /\ ret_value[2] \in LinkNumbers(arg_props[1])
             /\ \A n \in LinkNumbers(arg_props[1]) : n <= ret_value[2]
        ELSE IF ret_value[1] >= 1
        THEN IsCappedCeiling(ret_value[2], ret_value[1], ResultsPerPage, PageCeiling)
        ELSE ret_value[2] = 1

\* 2,001 results and no page link: 101 pages of 20, capped at 100
C22_Witness ==
    /\ fn = "get_total_pages_and_results"
    /\ Counted(arg_props[1])
    /\ arg_props[1].page_links = <<>>
    /\ ret_value = <<2001, 100>>

-----------------------------------------------------------------------------
(* The fallback page count.                                                *)

\* the run has called get_total_pages_and_results
HasCounted == rpc \in {"counted", "scraping", "done"}

\* C23: get_total_pages_and_results always returns a pair; when the fetch
\* of the first page fails after all retries or parsing raises, the pair is
\* (1650, 83), and run_monitoring then calls scrape_all_pages with it, which
\* attempts the pages from 1 on, one after the other, up to page 83 unless
\* it stops early.
C23_Fallback ==
    HasCounted =>
        /\ Len(ret_value) = 2
        /\ ~Counted(arg_props[1]) =>
            /\ ret_value = <<1650, 83>>
            /\ rpc \in {"scraping", "done"} =>
                /\ total_results = 1650
                /\ total_pages = 83
                /\ last_page.page = tally.completed + Len(scraping_stats.errors)
                /\ pc = "loop" => page_num = last_page.page + 1
                /\ (pc = "done" /\ ~DictGet(scraping_stats, "stopped_early", FALSE)) =>
                        last_page.page = 83

\* the first page could not be fetched, the site answered afterwards and
\* the run scraped 83 pages
C23_Witness ==
    /\ rpc = "done"
    /\ arg_props[1].failures > max_retries
    /\ ret_value = <<1650, 83>>
    /\ scraping_stats.pages_completed = 83
    /\ last_page.page = 83
    /\ outcome = "Fixed full scraping complete"

-----------------------------------------------------------------------------
(* A store file that cannot be loaded.                                     *)

\* the run found no loadable store file, completed and wrote the file
SavedAfterLoadFailure ==
    /\ rpc = "done"
    /\ ~opened.readable
    /\ outcome = "Fixed full scraping complete"
    /\ saved.readable

\* C24: when the store file cannot be loaded the run proceeds with an empty
\* store: every record of the accumulator is classified as new, none as
\* changed, and the store saved at the end holds exactly the records of
\* this run.
C24_LoadFailure ==
    (rpc = "done" /\ ~opened.readable) =>
        /\ loaded = <<>>
        /\ outcome = "Fixed full scraping complete" =>
            /\ Keys(new_listings) = Keys(all_properties)
            /\ changed_properties = <<>>
        /\ SavedAfterLoadFailure =>
            /\ Keys(saved.store) = Keys(all_properties)
            /\ \A i \in DOMAIN all_properties :
                \A f \in {"title", "location", "size", "price", "auction_date"} :
                    Item(saved.store, all_properties[i].id)[f] = all_properties[i].data[f]

-----------------------------------------------------------------------------
(* Retries.                                                                *)

\* how often the errors list names a page
ErrorsFor(page) ==
    Cardinality({i \in DOMAIN scraping_stats.errors : scraping_stats.errors[i] = page})

\* C25: one make_request call makes at most max_retries + 1 = 4 requests;
\* it returns the first answer it gets and makes no request after it, and
\* it raises only when 4 requests in a row have failed; the per-page
\* handler of scrape_all_pages then records exactly one error for the page
\* and the loop does not attempt the page again.
C25_Retries ==
    last_page.outcome # "none" =>
        /\ last_page.requests <= max_retries + 1
        /\ last_page.failures <= max_retries =>
            /\ last_page.outcome # "fetch raised"
            /\ last_page.requests = last_page.failures + 1
        /\ last_page.failures > max_retries =>
            /\ last_page.outcome = "fetch raised"
            /\ last_page.requests = max_retries + 1
            /\ ErrorsFor(last_page.page) = 1
        /\ last_page.outcome # "fetch raised" => ErrorsFor(last_page.page) = 0
        /\ pc = "loop" => page_num = last_page.page + 1
        /\ pc \in {"after", "done"} => page_num >= last_page.page

\* page 1 was fetched and scanned, and the four requests for page 2 failed
C25_Witness ==
    /\ pc = "done"
    /\ last_page.page = 2
    /\ last_page.outcome = "fetch raised"
    /\ last_page.requests = 4
    /\ scraping_stats.errors = <<2>>
    /\ scraping_stats.pages_completed = 1
    /\ tally.completed = 1

-----------------------------------------------------------------------------
(* Two overlapping runs.                                                   *)

\* both calls loaded the file before either saved it, f saved first and
\* l saved last
SavedInTurn(f, l) ==
    /\ racers[f].loaded_at \in {1, 2}
    /\ racers[l].loaded_at \in {1, 2}
    /\ racers[f].saved_at = 3
    /\ racers[l].saved_at = 4

\* the dates of the history items of a store
HistoryDates(store) ==
    UNION {{History(store[i].data, "price_history")[k].date :
                k \in DOMAIN History(store[i].data, "price_history")}
           \cup {History(store[i].data, "auction_date_history")[k].date :
                k \in DOMAIN History(store[i].data, "auction_date_history")} :
           i \in DOMAIN store}

\* the file lacks an entry that call f inserted
EntryLost(f) ==
    \E id \in Keys(racers[f].new_listings) : id \notin Keys(saved.store)

\* the file lacks a history item that call f appended to an entry
HistoryLost(f) ==
    /\ racers[f].changed_properties # <<>>
    /\ f \in HistoryDates(racers[f].database)
    /\ f \notin HistoryDates(saved.store)

\* C26: when two run_monitoring calls both load the store file before
\* either saves it, the file ends as the in-memory store of the call that
\* saved last: the loaded entries plus that call's inserts, with nothing
\* that the call that saved first inserted or appended on its own.
C26_LostUpdate ==
    \A f, l \in Racers :
        SavedInTurn(f, l) =>
            /\ saved.store = racers[l].database
            /\ Keys(saved.store) =
                   Keys(load_properties_database(opened)) \cup Keys(racers[l].new_listings)
            /\ \A id \in Keys(racers[f].new_listings) :
                   id \notin Keys(racers[l].new_listings) => id \notin Keys(saved.store)
            /\ f \notin HistoryDates(saved.store)

\* call 1 inserted an entry and saved it, call 2 saved after it, and the
\* entry is not in the file
C26_Witness ==
    /\ SavedInTurn(1, 2)
    /\ EntryLost(1)
    /\ Len(Item(racers[1].database, racers[1].new_listings[1].id).price_history) = 1

-----------------------------------------------------------------------------
(* Store invariants.                                                       *)

\* a history list is non-empty, ends with the entry's current value and
\* has no two adjacent items with the same value
WellFormedHistory(entry, name, field) ==
    /\ History(entry, name) # <<>>
    /\ History(entry, name)[Len(History(entry, name))][field] = entry[field]
    /\ \A k \in 1..(Len(History(entry, name)) - 1) :
           History(entry, name)[k][field] # History(entry, name)[k + 1][field]

\* C27: starting from an empty store, after any sequence of detect_changes
\* runs every store entry has a non-empty price_history that ends with the
\* entry's current price, a non-empty auction_date_history that ends with
\* its current auction_date, and no two adjacent items of either history
\* carry the same value.
C27_HistoryInvariant ==
    loaded = <<>> =>
        \A i \in DOMAIN database :
            /\ WellFormedHistory(database[i].data, "price_history", "price")
            /\ WellFormedHistory(database[i].data, "auction_date_history", "auction_date")

\* after two runs from an empty store an entry has seen its price and its
\* auction date change
C27_Witness ==
    /\ loaded = <<>>
    /\ runs = 2
    /\ \E i \in DOMAIN database :
        /\ Len(database[i].data.price_history) = 2
        /\ Len(database[i].data.auction_date_history) = 2

\* the stable key an entry carries
StableKeyOf(entry) == DictGet(entry, "_stable_key", generate_stable_key(entry))

\* C28: starting from an empty store, after any sequence of detect_changes
\* runs no two store entries carry the same stable key.
C28_UniqueStableKey ==
    loaded = <<>> =>
        \A i, j \in DOMAIN database :
            i # j => StableKeyOf(database[i].data) # StableKeyOf(database[j].data)

\* C29: for any store and any accumulator, the store has after
\* detect_changes as many entries as before plus the entries of
\* new_listings, and every key of new_listings is a key of the store after
\* the run that was not one before it.
C29_StoreGrowth ==
    runs >= 1 =>
        /\ Len(database) = Len(prev_database) + Len(new_listings)
        /\ Keys(new_listings) = Keys(database) \ Keys(prev_database)
        /\ Keys(prev_database) \subseteq Keys(database)
        /\ Cardinality(Keys(database)) = Len(database)
        /\ Cardinality(Keys(new_listings)) = Len(new_listings)

\* a run on a legacy store matched one record to the stored entry and
\* inserted the other
C29_Witness ==
    /\ runs = 1
    /\ loaded = LegacyDatabase
    /\ Len(current_properties) = 2
    /\ Len(new_listings) = 1
    /\ Len(database) = 2

-----------------------------------------------------------------------------
(* Pages completed.                                                        *)

\* C30: at the end of scrape_all_pages, pages_completed is the number of
\* pages of this scrape that were fetched and scanned without raising, so
\* that success_rate is the share of the pages scraped successfully; a page
\* whose fetch raised is never counted as completed.
C30_PagesCompleted ==
    pc = "done" =>
        /\ scraping_stats.pages_completed = tally.completed
        /\ scraping_stats.pages_completed + Len(scraping_stats.errors) <= total_pages
        /\ total_pages > 0 =>
               IsQuotient(scraping_stats.success_rate, tally.completed * 100, total_pages)

====
